---- MODULE Spec2Model ----
(***************************************************************************)
(* aci-vetr-collector: the collection pipeline.                            *)
(*                                                                         *)
(* main opens a buntdb store, launches one goroutine per catalog entry     *)
(* (fetch), waits on a sync.WaitGroup, writes the "meta" key, closes the   *)
(* store and archives the store file and the log file.                     *)
(*                                                                         *)
(* Two variants of the pipeline are modelled side by side:                 *)
(*   "optional" - src/unnamed/part_003: descriptors carry name, class,     *)
(*                filter and optional; a failed call of a required         *)
(*                descriptor panics inside the goroutine.                  *)
(*   "wildcard" - src/main.go:533-870 with src/requests.go: descriptors    *)
(*                carry a request and a prefix; a failed call is logged,   *)
(*                the rule is always imdata.#.*.attributes and a record    *)
(*                with an empty dn panics inside the transaction.          *)
(*                                                                         *)
(* Strings are sequences of tokens, so that Sprintf is concatenation and a *)
(* key pattern P:* is a prefix test.                                       *)
(***************************************************************************)
EXTENDS Integers, Sequences, FiniteSets, Bags, TLC

\* Largest number of records in one API response.
MaxRecs == 2

\* Largest number of runs of the program in one behaviour (SpecRerun).
MaxRuns == 2

schemaVersion == 23

version == <<"v0">>

dbName == <<"data", ".", "db">>

logFile == <<"aci-vetr-c", ".", "log">>

\* The arguments of a run: args.IP, args.Username, args.Password.
IP == <<"apic">>

Username == <<"usr">>

Password == <<"pwd">>

(***************************************************************************)
(* Strings                                                                 *)
(***************************************************************************)
EmptyStr == << >>

\* Mutant: the key built without the separator.
KeyOfNoSeparator(prefix, dn) == prefix \o dn

\* fmt.Sprintf("%s:%s", prefix, dn)
KeyOf(prefix, dn) == prefix \o <<":">> \o dn

RECURSIVE HasPrefix(_, _)
HasPrefix(s, p) ==
    IF p = << >> THEN TRUE
    ELSE IF s = << >> THEN FALSE
    ELSE Head(s) = Head(p) /\ HasPrefix(Tail(s), Tail(p))

\* The glob "P:*" of tx.AscendKeys.
MatchesPrefix(key, prefix) == HasPrefix(key, prefix \o <<":">>)

\* fmt.Sprintf("#.%s.attributes", name)
DefaultFilter(name) == <<"#", ".">> \o name \o <<".", "attributes">>

MoCountFilter == <<"#", ".", "moCount", ".", "attributes">>

WildcardFilter == <<"imdata", ".", "#", ".", "*", ".", "attributes">>

(***************************************************************************)
(* The catalogs                                                            *)
(***************************************************************************)
Req(name, class, filter, optional) ==
    [name |-> name, class |-> class, filter |-> filter, optional |-> optional]

\* newRequest(class, mods...): the class is the db prefix.
newRequest(class) == Req(<<class>>, <<class>>, EmptyStr, FALSE)

\* reqs of the optional variant in full: the name, the class, the filter
\* and the optional flag of every entry (the query parameters left out).
reqsOptionalFull ==
    << Req(EmptyStr, <<"topSystem">>, EmptyStr, FALSE),
       Req(EmptyStr, <<"eqptBoard">>, EmptyStr, FALSE),
       Req(EmptyStr, <<"fabricNode">>, EmptyStr, FALSE),
       Req(EmptyStr, <<"fabricSetupP">>, EmptyStr, FALSE),
       Req(EmptyStr, <<"epLoopProtectP">>, EmptyStr, FALSE),
       Req(EmptyStr, <<"epControlP">>, EmptyStr, FALSE),
       Req(EmptyStr, <<"epIpAgingP">>, EmptyStr, FALSE),
       Req(EmptyStr, <<"infraSetPol">>, EmptyStr, FALSE),
       Req(EmptyStr, <<"infraPortTrackPol">>, EmptyStr, FALSE),
       Req(EmptyStr, <<"coopPol">>, EmptyStr, FALSE),
       Req(EmptyStr, <<"fvAEPg">>, EmptyStr, FALSE),
       Req(EmptyStr, <<"fvRsBd">>, EmptyStr, FALSE),
       Req(EmptyStr, <<"fvBD">>, EmptyStr, FALSE),
       Req(EmptyStr, <<"fvCtx">>, EmptyStr, FALSE),
       Req(EmptyStr, <<"fvTenant">>, EmptyStr, FALSE),
       Req(EmptyStr, <<"fvSubnet">>, EmptyStr, FALSE),
       Req(EmptyStr, <<"vzBrCP">>, EmptyStr, FALSE),
       Req(EmptyStr, <<"vzFilter">>, EmptyStr, FALSE),
       Req(EmptyStr, <<"vzSubj">>, EmptyStr, FALSE),
       Req(EmptyStr, <<"vzRsSubjFiltAtt">>, EmptyStr, FALSE),
       Req(EmptyStr, <<"fvRsProv">>, EmptyStr, FALSE),
       Req(EmptyStr, <<"fvRsCons">>, EmptyStr, FALSE),
       Req(EmptyStr, <<"l3extOut">>, EmptyStr, FALSE),
       Req(EmptyStr, <<"l3extLNodeP">>, EmptyStr, FALSE),
       Req(EmptyStr, <<"l3extRsNodeL3OutAtt">>, EmptyStr, FALSE),
       Req(EmptyStr, <<"l3extLIfP">>, EmptyStr, FALSE),
       Req(EmptyStr, <<"l3extInstP">>, EmptyStr, FALSE),
       Req(EmptyStr, <<"isisDomPol">>, EmptyStr, FALSE),
       Req(EmptyStr, <<"bgpRRNodePEp">>, EmptyStr, FALSE),
       Req(EmptyStr, <<"l3IfPol">>, EmptyStr, FALSE),
       Req(EmptyStr, <<"fabricNodeControl">>, EmptyStr, FALSE),
       Req(EmptyStr, <<"fabricRsNodeCtrl">>, EmptyStr, FALSE),
       Req(EmptyStr, <<"fabricRsLeNodePGrp">>, EmptyStr, FALSE),
       Req(EmptyStr, <<"fabricNodeBlk">>, EmptyStr, FALSE),
       Req(EmptyStr, <<"mcpIfPol">>, EmptyStr, FALSE),
       Req(EmptyStr, <<"infraRsMcpIfPol">>, EmptyStr, FALSE),
       Req(EmptyStr, <<"infraRsAccBaseGrp">>, EmptyStr, FALSE),
       Req(EmptyStr, <<"infraRsAccPortP">>, EmptyStr, FALSE),
       Req(EmptyStr, <<"mcpInstPol">>, EmptyStr, FALSE),
       Req(EmptyStr, <<"infraAttEntityP">>, EmptyStr, FALSE),
       Req(EmptyStr, <<"infraRsDomP">>, EmptyStr, FALSE),
       Req(EmptyStr, <<"infraRsVlanNs">>, EmptyStr, FALSE),
       Req(EmptyStr, <<"fvnsEncapBlk">>, EmptyStr, FALSE),
       Req(EmptyStr, <<"firmwareRunning">>, EmptyStr, FALSE),
       Req(EmptyStr, <<"firmwareCtrlrRunning">>, EmptyStr, FALSE),
       Req(EmptyStr, <<"pkiExportEncryptionKey">>, EmptyStr, FALSE),
       Req(EmptyStr, <<"faultInst">>, EmptyStr, FALSE),
       Req(EmptyStr, <<"fvcapRule">>, EmptyStr, FALSE),
       Req(EmptyStr, <<"fvCEp">>, MoCountFilter, FALSE),
       Req(EmptyStr, <<"fvIp">>, MoCountFilter, FALSE),
       Req(EmptyStr, <<"vnsCDev">>, MoCountFilter, FALSE),
       Req(EmptyStr, <<"vnsGraphInst">>, MoCountFilter, FALSE),
       Req(EmptyStr, <<"ctxClassCnt">>, EmptyStr, FALSE),
       Req(EmptyStr, <<"fabricHealthTotal">>, EmptyStr, FALSE),
       Req(<<"healthInst">>, <<"topSystem">>, EmptyStr, FALSE),
       Req(EmptyStr, <<"eqptcapacityVlanUsage5min">>, EmptyStr, FALSE),
       Req(EmptyStr, <<"eqptcapacityPolUsage5min">>, EmptyStr, FALSE),
       Req(EmptyStr, <<"eqptcapacityL2Usage5min">>, EmptyStr, FALSE),
       Req(EmptyStr, <<"eqptcapacityL2RemoteUsage5min">>, EmptyStr, TRUE),
       Req(EmptyStr, <<"eqptcapacityL2TotalUsage5min">>, EmptyStr, TRUE),
       Req(EmptyStr, <<"eqptcapacityL3Usage5min">>, EmptyStr, FALSE),
       Req(EmptyStr, <<"eqptcapacityL3UsageCap5min">>, EmptyStr, FALSE),
       Req(EmptyStr, <<"eqptcapacityL3RemoteUsage5min">>, EmptyStr, TRUE),
       Req(EmptyStr, <<"eqptcapacityL3RemoteUsageCap5min">>, EmptyStr, TRUE),
       Req(EmptyStr, <<"eqptcapacityL3TotalUsage5min">>, EmptyStr, TRUE),
       Req(EmptyStr, <<"eqptcapacityL3TotalUsageCap5min">>, EmptyStr, TRUE),
       Req(EmptyStr, <<"eqptcapacityMcastUsage5min">>, EmptyStr, FALSE) >>

\* reqs of the wildcard variant in full: the prefix and the class of every
\* entry, as newRequest and the healthInst literal set them.
reqsWildcardFull ==
    << Req(<<"topSystem">>, <<"topSystem">>, EmptyStr, FALSE),
       Req(<<"eqptBoard">>, <<"eqptBoard">>, EmptyStr, FALSE),
       Req(<<"fabricNode">>, <<"fabricNode">>, EmptyStr, FALSE),
       Req(<<"fabricSetupP">>, <<"fabricSetupP">>, EmptyStr, FALSE),
       Req(<<"epLoopProtectP">>, <<"epLoopProtectP">>, EmptyStr, FALSE),
       Req(<<"epControlP">>, <<"epControlP">>, EmptyStr, FALSE),
       Req(<<"epIpAgingP">>, <<"epIpAgingP">>, EmptyStr, FALSE),
       Req(<<"infraSetPol">>, <<"infraSetPol">>, EmptyStr, FALSE),
       Req(<<"infraPortTrackPol">>, <<"infraPortTrackPol">>, EmptyStr, FALSE),
       Req(<<"coopPol">>, <<"coopPol">>, EmptyStr, FALSE),
       Req(<<"fvAEPg">>, <<"fvAEPg">>, EmptyStr, FALSE),
       Req(<<"fvRsBd">>, <<"fvRsBd">>, EmptyStr, FALSE),
       Req(<<"fvBD">>, <<"fvBD">>, EmptyStr, FALSE),
       Req(<<"fvCtx">>, <<"fvCtx">>, EmptyStr, FALSE),
       Req(<<"fvTenant">>, <<"fvTenant">>, EmptyStr, FALSE),
       Req(<<"fvSubnet">>, <<"fvSubnet">>, EmptyStr, FALSE),
       Req(<<"vzBrCP">>, <<"vzBrCP">>, EmptyStr, FALSE),
       Req(<<"vzFilter">>, <<"vzFilter">>, EmptyStr, FALSE),
       Req(<<"vzSubj">>, <<"vzSubj">>, EmptyStr, FALSE),
       Req(<<"vzRsSubjFiltAtt">>, <<"vzRsSubjFiltAtt">>, EmptyStr, FALSE),
       Req(<<"fvRsProv">>, <<"fvRsProv">>, EmptyStr, FALSE),
       Req(<<"fvRsCons">>, <<"fvRsCons">>, EmptyStr, FALSE),
       Req(<<"l3extOut">>, <<"l3extOut">>, EmptyStr, FALSE),
       Req(<<"l3extLNodeP">>, <<"l3extLNodeP">>, EmptyStr, FALSE),
       Req(<<"l3extRsNodeL3OutAtt">>, <<"l3extRsNodeL3OutAtt">>, EmptyStr, FALSE),
       Req(<<"l3extLIfP">>, <<"l3extLIfP">>, EmptyStr, FALSE),
       Req(<<"l3extInstP">>, <<"l3extInstP">>, EmptyStr, FALSE),
       Req(<<"isisDomPol">>, <<"isisDomPol">>, EmptyStr, FALSE),
       Req(<<"bgpRRNodePEp">>, <<"bgpRRNodePEp">>, EmptyStr, FALSE),
       Req(<<"l3IfPol">>, <<"l3IfPol">>, EmptyStr, FALSE),
       Req(<<"fabricNodeControl">>, <<"fabricNodeControl">>, EmptyStr, FALSE),
       Req(<<"fabricRsNodeCtrl">>, <<"fabricRsNodeCtrl">>, EmptyStr, FALSE),
       Req(<<"fabricRsLeNodePGrp">>, <<"fabricRsLeNodePGrp">>, EmptyStr, FALSE),
       Req(<<"fabricNodeBlk">>, <<"fabricNodeBlk">>, EmptyStr, FALSE),
       Req(<<"mcpIfPol">>, <<"mcpIfPol">>, EmptyStr, FALSE),
       Req(<<"infraRsMcpIfPol">>, <<"infraRsMcpIfPol">>, EmptyStr, FALSE),
       Req(<<"infraRsAccBaseGrp">>, <<"infraRsAccBaseGrp">>, EmptyStr, FALSE),
       Req(<<"infraRsAccPortP">>, <<"infraRsAccPortP">>, EmptyStr, FALSE),
       Req(<<"mcpInstPol">>, <<"mcpInstPol">>, EmptyStr, FALSE),
       Req(<<"infraAttEntityP">>, <<"infraAttEntityP">>, EmptyStr, FALSE),
       Req(<<"infraRsDomP">>, <<"infraRsDomP">>, EmptyStr, FALSE),
       Req(<<"infraRsVlanNs">>, <<"infraRsVlanNs">>, EmptyStr, FALSE),
       Req(<<"fvnsEncapBlk">>, <<"fvnsEncapBlk">>, EmptyStr, FALSE),
       Req(<<"firmwareRunning">>, <<"firmwareRunning">>, EmptyStr, FALSE),
       Req(<<"firmwareCtrlrRunning">>, <<"firmwareCtrlrRunning">>, EmptyStr, FALSE),
       Req(<<"pkiExportEncryptionKey">>, <<"pkiExportEncryptionKey">>, EmptyStr, FALSE),
       Req(<<"faultInst">>, <<"faultInst">>, EmptyStr, FALSE),
       Req(<<"fvcapRule">>, <<"fvcapRule">>, EmptyStr, FALSE),
       Req(<<"fvCEp">>, <<"fvCEp">>, EmptyStr, FALSE),
       Req(<<"fvIp">>, <<"fvIp">>, EmptyStr, FALSE),
       Req(<<"vnsCDev">>, <<"vnsCDev">>, EmptyStr, FALSE),
       Req(<<"vnsGraphInst">>, <<"vnsGraphInst">>, EmptyStr, FALSE),
       Req(<<"ctxClassCnt">>, <<"ctxClassCnt">>, EmptyStr, FALSE),
       Req(<<"fabricHealthTotal">>, <<"fabricHealthTotal">>, EmptyStr, FALSE),
       Req(<<"healthInst">>, <<"topSystem">>, EmptyStr, FALSE),
       Req(<<"eqptcapacityVlanUsage5min">>, <<"eqptcapacityVlanUsage5min">>, EmptyStr, FALSE),
       Req(<<"eqptcapacityPolUsage5min">>, <<"eqptcapacityPolUsage5min">>, EmptyStr, FALSE),
       Req(<<"eqptcapacityL2Usage5min">>, <<"eqptcapacityL2Usage5min">>, EmptyStr, FALSE),
       Req(<<"eqptcapacityL2RemoteUsage5min">>, <<"eqptcapacityL2RemoteUsage5min">>, EmptyStr, FALSE),
       Req(<<"eqptcapacityL2TotalUsage5min">>, <<"eqptcapacityL2TotalUsage5min">>, EmptyStr, FALSE),
       Req(<<"eqptcapacityL3Usage5min">>, <<"eqptcapacityL3Usage5min">>, EmptyStr, FALSE),
       Req(<<"eqptcapacityL3UsageCap5min">>, <<"eqptcapacityL3UsageCap5min">>, EmptyStr, FALSE),
       Req(<<"eqptcapacityL3RemoteUsage5min">>, <<"eqptcapacityL3RemoteUsage5min">>, EmptyStr, FALSE),
       Req(<<"eqptcapacityL3RemoteUsageCap5min">>, <<"eqptcapacityL3RemoteUsageCap5min">>, EmptyStr, FALSE),
       Req(<<"eqptcapacityL3TotalUsage5min">>, <<"eqptcapacityL3TotalUsage5min">>, EmptyStr, FALSE),
       Req(<<"eqptcapacityL3TotalUsageCap5min">>, <<"eqptcapacityL3TotalUsageCap5min">>, EmptyStr, FALSE),
       Req(<<"eqptcapacityMcastUsage5min">>, <<"eqptcapacityMcastUsage5min">>, EmptyStr, FALSE) >>

\* Mutant: the health entry without a name of its own, so that it shares
\* the prefix of the topSystem entry.
reqsOptionalSharedPrefix ==
    << Req(EmptyStr, <<"topSystem">>, EmptyStr, FALSE),
       Req(EmptyStr, <<"fvCEp">>, MoCountFilter, FALSE),
       Req(EmptyStr, <<"topSystem">>, EmptyStr, FALSE),
       Req(EmptyStr, <<"eqptcapacityL2RemoteUsage5min">>, EmptyStr, TRUE) >>

\* A representative part of reqs of the optional variant: a plain class, a
\* count query with its own filter, a custom name, an optional class.
reqsOptional ==
    << Req(EmptyStr, <<"topSystem">>, EmptyStr, FALSE),
       Req(EmptyStr, <<"fvCEp">>, MoCountFilter, FALSE),
       Req(<<"healthInst">>, <<"topSystem">>, EmptyStr, FALSE),
       Req(EmptyStr, <<"eqptcapacityL2RemoteUsage5min">>, EmptyStr, TRUE) >>

\* A representative part of reqs of the wildcard variant: a plain class, a
\* count query, a request whose prefix is not its class.
reqsWildcard ==
    << newRequest("topSystem"),
       newRequest("fvCEp"),
       [newRequest("topSystem") EXCEPT !.name = <<"healthInst">>] >>

Variants == {"optional", "wildcard"}

reqs(v) == IF v = "optional" THEN reqsOptional ELSE reqsWildcard

\* Mutant: the db prefix is always the queried class.
EffNameAlwaysClass(r) == r.class

\* req.name after "if req.name == "" { req.name = req.class }".
EffName(r) == IF r.name = EmptyStr THEN r.class ELSE r.name

\* Mutant: the default rule built from the class, not from the name.
EffFilterFromClass(v, r) ==
    IF v = "wildcard" THEN WildcardFilter
    ELSE IF r.filter = EmptyStr THEN DefaultFilter(r.class)
    ELSE r.filter

\* req.filter after "if req.filter == "" { ... }"; the wildcard variant has
\* one rule for every request.
EffFilter(v, r) ==
    IF v = "wildcard" THEN WildcardFilter
    ELSE IF r.filter = EmptyStr THEN DefaultFilter(EffName(r))
    ELSE r.filter

(***************************************************************************)
(* JSON documents and gjson                                                *)
(***************************************************************************)
\* One element of imdata, { tag: { attributes: attrs } }.
Elem(tag, attrs) == [tag |-> tag, attributes |-> attrs]

\* gjson's Result.Get("dn").Str: empty when the field is missing.
GetDn(attrs) == IF "dn" \in DOMAIN attrs THEN attrs.dn ELSE EmptyStr

\* The segments of a gjson path, split at the dots.
PathSegs(path) == SelectSeq(path, LAMBDA t : t # ".")

\* tag.attributes, or *.attributes, of one element of an array: a sequence
\* holding the attributes, empty when the element has no such member.
ElemGet(e, segs) ==
    IF Len(segs) = 2 /\ segs[2] = "attributes" /\ segs[1] \in {"*", e.tag}
    THEN << e.attributes >>
    ELSE << >>

RECURSIVE Collect(_, _)
Collect(elems, segs) ==
    IF elems = << >> THEN << >>
    ELSE ElemGet(Head(elems), segs) \o Collect(Tail(elems), segs)

\* res.Get(path).Array() for the paths the program uses.
RECURSIVE GetArray(_, _)
GetArray(res, segs) ==
    IF segs = << >> THEN << >>
    ELSE IF Head(segs) = "imdata"
    THEN IF res.kind = "object"
         THEN GetArray([kind |-> "array", elems |-> res.elems], Tail(segs))
         ELSE << >>
    ELSE IF Head(segs) = "#"
    THEN IF res.kind = "array" THEN Collect(res.elems, Tail(segs)) ELSE << >>
    ELSE << >>

Extract(res, filter) == GetArray(res, PathSegs(filter))

(***************************************************************************)
(* The remote system: what the API answers for each catalog entry. It is   *)
(* the same for every run of one behaviour (an unchanged remote state).    *)
(***************************************************************************)
DnA == <<"uni/tn-A">>

DnB == <<"uni/tn-B">>

Dns == {EmptyStr, DnA, DnB}

\* Sequences of dn of length 0..MaxRecs; a second name appears only after
\* the first one (the names are interchangeable).
DnSeqs ==
    LET all == UNION {[1..n -> Dns] : n \in 0..MaxRecs}
        canon(s) == \A i \in 1..Len(s) :
                        s[i] = DnB => \E j \in 1..(i - 1) : s[j] = DnA
    IN  {s \in all : canon(s)}

\* The attributes of the i-th object of a response: its dn and the rest.
Attrs(tag, dn, i) == [dn |-> dn, descr |-> <<tag, ToString(i)>>]

CountAttrs == [count |-> <<"5">>]

Ok(elems) == [err |-> FALSE, elems |-> elems]

Failed == [err |-> TRUE, elems |-> << >>]

ObjectsOf(tag, dns) == [i \in 1..Len(dns) |-> Elem(tag, Attrs(tag, dns[i], i))]

\* The answers to one request: an error, or the objects the query returns
\* (a count query returns one moCount object; the health query returns
\* healthInst objects).
Answers(v, d) ==
    LET r == reqs(v)[d]
        tag == EffName(r)[1]
    IN  {Failed} \cup
        (IF r.class = <<"fvCEp">> THEN {Ok(<<Elem("moCount", CountAttrs)>>)}
         ELSE IF d = 1 THEN {Ok(ObjectsOf(tag, s)) : s \in DnSeqs}
         ELSE IF r.optional THEN {Ok(<< >>), Ok(ObjectsOf(tag, <<DnA>>))}
         ELSE {Ok(ObjectsOf(tag, <<DnA>>))})

\* The answers to the first n entries, one for each.
RECURSIVE RemotesUpTo(_, _)
RemotesUpTo(v, n) ==
    IF n = 0 THEN {<< >>}
    ELSE {Append(f, a) : f \in RemotesUpTo(v, n - 1), a \in Answers(v, n)}

Remotes(v) == RemotesUpTo(v, Len(reqs(v)))

\* The Res a call hands to fetch: GetClass returns the imdata array, Do the
\* whole body; a failed call returns the zero Res.
ResOf(v, answer) ==
    IF answer.err THEN [kind |-> "null", elems |-> << >>]
    ELSE IF v = "optional" THEN [kind |-> "array", elems |-> answer.elems]
    ELSE [kind |-> "object", elems |-> answer.elems]

(***************************************************************************)
(* State                                                                   *)
(***************************************************************************)
VARIABLES
    variant,    \* which of the two pipelines runs
    remote,     \* the answer of the API to each catalog entry
    run,        \* the number of the current run of the program
    proc,       \* "running", "crashed" (a goroutine panicked), "exited"
    mainPc,     \* where main is
    launched,   \* how many entries the launch loop has gone through
    wg,         \* the WaitGroup counter
    taskPc,     \* where each fetch goroutine is
    txOwner,    \* the goroutine inside db.Update (0: none)
    txIdx,      \* the record the transaction's loop is at
    txWrites,   \* the keys set by the open transaction
    store,      \* the content of the file data.db: key -> value
    dbExists,   \* whether data.db is on disk
    dbOpen,     \* whether main holds the open db handle
    logf,       \* the content of the log file, a bag of entries
    logExists,  \* whether the log file is on disk
    archive,    \* the output zip: whether it exists, and its two members
    startKeys,  \* the keys the store held when this run opened it
    steps,      \* the finalisation steps main has taken in this run
    calls,      \* how many times each entry's API call was made in this run
    failed,     \* the failures met in this run
    debugLog,   \* the entries logged at Debug level (in the file only
                \* under --debug), a bag
    catalog,    \* the package variable reqs
    taskReq,    \* the parameter req of each fetch goroutine
    fproc,      \* file-per-resource variant: "off", "running", "complete",
                \* "fatal" (log.Fatal), "panic" (log.Panic)
    fmainPc,    \* file-per-resource variant: where main is
    ftaskPc,    \* file-per-resource variant: where each fetch goroutine is
    files,      \* file-per-resource variant: main's list of file names
    disk,       \* file-per-resource variant: the temporary files on disk
    zipped,     \* file-per-resource variant: the archive and its members
    rmIdx,      \* file-per-resource variant: the index of rmTempFiles' loop
    wfile,      \* MultiLevelWriter: what its file has been given, in order
    wconsole,   \* MultiLevelWriter: what its console has been given
    wcalls,     \* MultiLevelWriter: the calls made, with their results
    cmdline,    \* newArgs: the options of the command line
    argsPc,     \* newArgs: "off", "parse", "returned", "exited"
    argsRet     \* newArgs: what it returned

\* The state of the pipeline that writes one file per resource.
fileVars == << fproc, fmainPc, ftaskPc, files, disk, zipped, rmIdx >>

\* The state of the pipelines that write the store.
collectorVars ==
    << variant, remote, run, proc, mainPc, launched, wg, taskPc, txOwner,
       txIdx, txWrites, store, dbExists, dbOpen, logf, logExists, archive,
       startKeys, steps, calls, failed, debugLog, catalog, taskReq >>

\* The state of one MultiLevelWriter.
writerVars == << wfile, wconsole, wcalls >>

\* The state of one call of newArgs.
argsVars == << cmdline, argsPc, argsRet >>

vars == << collectorVars, fileVars, writerVars, argsVars >>

N == Len(reqs(variant))

Tasks == 1..N

\* One entry of the log: its level, its message and the values of its
\* string fields (the class, the file, the host, the user).
Entry(level, msg, class) == [level |-> level, msg |-> msg, class |-> class]

Logged(e) == logf (+) SetToBag({e})

\* The failure f is met.
Fails(f) == failed' = failed \cup {f}

NoArchive == [exists |-> FALSE, db |-> << >>, log |-> EmptyBag]

\* time.Now() when the metadata is built: later runs read a later clock.
Now == run

MetaKey == <<"meta">>

\* json.Marshal of the metadata map, main lines 329-333.
Metadata ==
    [collectorVersion |-> version, schemaVersion |-> schemaVersion,
     timestamp |-> Now]

\* The records fetch iterates over inside its transaction.
Records(d) ==
    Extract(ResOf(variant, remote[d]), EffFilter(variant, reqs(variant)[d]))

\* Mutant: every record keyed by the dn of the first record of the loop.
RecordKeyFirstDn(d, rec) ==
    KeyOf(EffName(reqs(variant)[d]), GetDn(Records(d)[1]))

\* Mutant: the key built from the queried class, not from the db prefix.
RecordKeyByClass(d, rec) == KeyOf(reqs(variant)[d].class, GetDn(rec))

\* The key of one record.
RecordKey(d, rec) == KeyOf(EffName(reqs(variant)[d]), GetDn(rec))

\* Mutant: a set that forgets the keys set before it.
TxSetKeyAlone(writes, key, value) == [k \in {key} |-> value]

\* Mutant: a set that keeps the value a key already has.
TxSetKeyFirstWins(writes, key, value) ==
    [k \in DOMAIN writes \cup {key} |->
        IF k \in DOMAIN writes THEN writes[k] ELSE value]

\* tx.Set(key, value): upsert into the transaction's writes.
TxSetKey(writes, key, value) ==
    [k \in DOMAIN writes \cup {key} |-> IF k = key THEN value ELSE writes[k]]

\* Mutant: a commit that replaces the store by the transaction's writes.
CommitOnlyWrites(st, writes) == writes

\* Mutant: a transaction without writes empties the store.
CommitEmptyClears(st, writes) ==
    IF DOMAIN writes = {} THEN << >>
    ELSE [k \in DOMAIN st \cup DOMAIN writes |->
             IF k \in DOMAIN writes THEN writes[k] ELSE st[k]]

\* tx.Commit(): the transaction's writes reach the store together.
Commit(st, writes) ==
    [k \in DOMAIN st \cup DOMAIN writes |->
        IF k \in DOMAIN writes THEN writes[k] ELSE st[k]]

\* Mutant: the optional flag read the wrong way round.
FetchFatalInverted(d) ==
    /\ variant = "optional"
    /\ remote[d].err
    /\ reqs(variant)[d].optional

\* Mutant: the failed call of a required entry is fatal in both variants.
FetchFatalAnyVariant(d) ==
    /\ remote[d].err
    /\ ~reqs(variant)[d].optional

\* "if err != nil && !req.optional": the failed call is fatal.
FetchFatal(d) ==
    /\ variant = "optional"
    /\ remote[d].err
    /\ ~reqs(variant)[d].optional

\* Mutant: the wait returns while one task is still counted.
WaitReturnsEarly == wg <= 1

\* wg.Wait() returns.
WaitReturns == wg = 0

\* The zero Request: the parameter of a goroutine that was not launched.
NoReq == Req(EmptyStr, EmptyStr, EmptyStr, FALSE)

\* Mutant: every goroutine reads the loop variable after the loop has ended.
LaunchArgLast(i) == catalog[N]

\* The entry "go fetch(client, req, db)" hands to the i-th goroutine: the
\* value of the loop variable when the go statement is executed, a copy.
LaunchArg(i) == catalog[i]

\* req after the defaulting of its name and filter, which the optional
\* variant does on its parameter.
Defaulted(r) ==
    IF variant = "optional"
    THEN [r EXCEPT !.name = EffName(r), !.filter = EffFilter(variant, r)]
    ELSE r

\* The pipeline that writes one file per resource is not the one that runs.
FileOff ==
    /\ fproc = "off"
    /\ fmainPc = "end"
    /\ ftaskPc = << >>
    /\ files = << >>
    /\ disk = {}
    /\ zipped = [exists |-> FALSE, members |-> << >>]
    /\ rmIdx = 0

\* No MultiLevelWriter is followed.
WriterOff ==
    /\ wfile = << >>
    /\ wconsole = << >>
    /\ wcalls = << >>

\* No call of newArgs is followed.
ArgsOff ==
    /\ cmdline = << >>
    /\ argsPc = "off"
    /\ argsRet = << >>

Init ==
    /\ variant \in Variants
    /\ remote \in Remotes(variant)
    /\ run = 1
    /\ proc = "running"
    /\ mainPc = "init"
    /\ launched = 0
    /\ wg = 0
    /\ taskPc = [d \in Tasks |-> "idle"]
    /\ txOwner = 0
    /\ txIdx = 0
    /\ txWrites = << >>
    /\ store = << >>
    /\ dbExists = FALSE
    /\ dbOpen = FALSE
    /\ logf = EmptyBag
    /\ logExists = FALSE
    /\ archive = NoArchive
    /\ startKeys = {}
    /\ steps = << >>
    /\ calls = [d \in Tasks |-> 0]
    /\ failed = {}
    /\ debugLog = EmptyBag
    /\ catalog = reqs(variant)
    /\ taskReq = [d \in Tasks |-> NoReq]
    /\ FileOff
    /\ WriterOff
    /\ ArgsOff

(***************************************************************************)
(* main                                                                    *)
(***************************************************************************)
taskVars == << launched, wg, taskPc, txOwner, txIdx, txWrites, calls,
              debugLog, taskReq >>

fixedVars == << variant, remote, run, catalog, fileVars, writerVars,
               argsVars >>

\* newArgsFromCLI, initLogger (os.Create truncates the log file), NewClient.
MainStart ==
    /\ proc = "running" /\ mainPc = "init"
    /\ logExists' = TRUE
    /\ logf' = EmptyBag
    /\ mainPc' = "login"
    /\ UNCHANGED << failed, fixedVars, proc, taskVars, store, dbExists, dbOpen,
                    archive, startKeys, steps >>

\* The three entries logged before client.Login().
LoginEntries ==
    SetToBag({Entry("info", "APIC host", IP),
              Entry("info", "APIC username", Username),
              Entry("info", "Authenticating to the APIC...", EmptyStr)})

LoginOk ==
    /\ proc = "running" /\ mainPc = "login"
    /\ logf' = logf (+) LoginEntries
    /\ mainPc' = "open"
    /\ UNCHANGED << failed, fixedVars, proc, taskVars, store, dbExists, dbOpen,
                    logExists, archive, startKeys, steps >>

\* client.Login() fails: log.Panic in main, caught by the deferred recover.
LoginFail ==
    /\ proc = "running" /\ mainPc = "login"
    /\ logf' = logf (+) LoginEntries
                    (+) SetToBag({Entry("panic",
                                        "cannot authenticate to the APIC.",
                                        IP \o Username)})
    /\ mainPc' = "recover"
    /\ Fails("login")
    /\ UNCHANGED << fixedVars, proc, taskVars, store, dbExists, dbOpen,
                    logExists, archive, startKeys, steps >>

\* buntdb.Open(dbName): creates the file when it is missing and loads what
\* an existing file holds.
OpenOk ==
    /\ proc = "running" /\ mainPc = "open"
    /\ dbExists' = TRUE
    /\ dbOpen' = TRUE
    /\ startKeys' = DOMAIN store
    /\ mainPc' = "launch"
    /\ UNCHANGED << failed, fixedVars, proc, taskVars, store, logf, logExists,
                    archive, steps >>

OpenFail ==
    /\ proc = "running" /\ mainPc = "open"
    /\ logf' = Logged(Entry("panic", "cannot open output file", dbName))
    /\ mainPc' = "recover"
    /\ Fails("open")
    /\ UNCHANGED << fixedVars, proc, taskVars, store, dbExists, dbOpen,
                    logExists, archive, startKeys, steps >>

\* One turn of "for _, req := range reqs { wg.Add(1); go fetch(...) }".
Launch ==
    /\ proc = "running" /\ mainPc = "launch"
    /\ launched < N
    /\ wg' = wg + 1
    /\ taskPc' = [taskPc EXCEPT ![launched + 1] = "start"]
    /\ taskReq' = [taskReq EXCEPT ![launched + 1] = LaunchArg(launched + 1)]
    /\ launched' = launched + 1
    /\ mainPc' = IF launched + 1 = N THEN "wait" ELSE "launch"
    /\ UNCHANGED << failed, fixedVars, proc, txOwner, txIdx, txWrites, store,
                    dbExists, dbOpen, logf, logExists, archive, startKeys,
                    steps, calls, debugLog >>

\* wg.Wait()
Wait ==
    /\ proc = "running" /\ mainPc = "wait"
    /\ WaitReturns
    /\ mainPc' = "meta"
    /\ UNCHANGED << failed, fixedVars, proc, taskVars, store, dbExists, dbOpen, logf,
                    logExists, archive, startKeys, steps >>

\* db.Update setting "meta": one transaction, taken when no other is open.
MetaOk ==
    /\ proc = "running" /\ mainPc = "meta"
    /\ txOwner = 0
    /\ store' = Commit(store, TxSetKey(<< >>, MetaKey, Metadata))
    /\ steps' = Append(steps, "meta")
    /\ mainPc' = "close"
    /\ UNCHANGED << failed, fixedVars, proc, taskVars, dbExists, dbOpen, logf,
                    logExists, archive, startKeys >>

\* The metadata transaction cannot be written to the file: rolled back.
MetaFail ==
    /\ proc = "running" /\ mainPc = "meta"
    /\ txOwner = 0
    /\ logf' = Logged(Entry("panic", "cannot update db file", EmptyStr))
    /\ mainPc' = "recover"
    /\ Fails("meta")
    /\ UNCHANGED << fixedVars, proc, taskVars, store, dbExists, dbOpen,
                    logExists, archive, startKeys, steps >>

\* Mutant: main archives without closing the store.
CloseForgotten ==
    /\ proc = "running" /\ mainPc = "close"
    /\ mainPc' = "archive"
    /\ UNCHANGED << failed, fixedVars, proc, taskVars, store, dbExists, dbOpen, logf,
                    logExists, archive, startKeys, steps >>

\* db.Close()
Close ==
    /\ proc = "running" /\ mainPc = "close"
    /\ dbOpen' = FALSE
    /\ steps' = Append(steps, "close")
    /\ mainPc' = "archive"
    /\ UNCHANGED << failed, fixedVars, proc, taskVars, store, dbExists, logf,
                    logExists, archive, startKeys >>

\* db.Close() returns an error (the file cannot be closed): the handle is
\* marked closed, the error is dropped, nothing is logged, main goes on.
CloseFail ==
    /\ proc = "running" /\ mainPc = "close"
    /\ dbOpen' = FALSE
    /\ steps' = Append(steps, "close")
    /\ mainPc' = "archive"
    /\ Fails("close")
    /\ UNCHANGED << fixedVars, proc, taskVars, store, dbExists, logf,
                    logExists, archive, startKeys >>

\* os.Remove(args.Output); archiver.Archive([dbName, logFile], args.Output)
ArchiveOk ==
    /\ proc = "running" /\ mainPc = "archive"
    /\ logf' = Logged(Entry("info", "Creating archive", EmptyStr))
    /\ archive' = [exists |-> TRUE, db |-> store, log |-> logf']
    /\ steps' = Append(steps, "archive")
    /\ mainPc' = "complete"
    /\ UNCHANGED << failed, fixedVars, proc, taskVars, store, dbExists, dbOpen,
                    logExists, startKeys >>

ArchiveFail ==
    /\ proc = "running" /\ mainPc = "archive"
    /\ logf' = logf (+) SetToBag({Entry("info", "Creating archive", EmptyStr),
                                  Entry("panic", "cannot create archive",
                                        dbName)})
    /\ archive' = NoArchive
    /\ mainPc' = "recover"
    /\ Fails("archive")
    /\ UNCHANGED << fixedVars, proc, taskVars, store, dbExists, dbOpen,
                    logExists, startKeys, steps >>

Complete ==
    /\ proc = "running" /\ mainPc = "complete"
    /\ logf' = logf (+) SetToBag({Entry("info", "Collection complete.",
                                        EmptyStr),
                                  Entry("info", "Please provide", EmptyStr)})
    /\ mainPc' = "deferred"
    /\ UNCHANGED << failed, fixedVars, proc, taskVars, store, dbExists, dbOpen,
                    logExists, archive, startKeys, steps >>

\* The deferred function after a panic of main: recover() is not nil.
Recover ==
    /\ proc = "running" /\ mainPc = "recover"
    /\ logf' = Logged(Entry("error", "Collection failed.", EmptyStr))
    /\ mainPc' = "deferred"
    /\ UNCHANGED << failed, fixedVars, proc, taskVars, store, dbExists, dbOpen,
                    logExists, archive, startKeys, steps >>

\* Mutant: the deferred function removes the store file only.
DeferredKeepsLog ==
    /\ proc = "running" /\ mainPc = "deferred"
    /\ dbExists' = FALSE
    /\ store' = << >>
    /\ dbOpen' = FALSE
    /\ proc' = "exited"
    /\ mainPc' = "end"
    /\ UNCHANGED << failed, fixedVars, taskVars, archive, startKeys, steps,
                    logExists, logf >>

\* The rest of the deferred function: os.Remove(dbName), os.Remove(logFile),
\* the pause, and main returns.
Deferred ==
    /\ proc = "running" /\ mainPc = "deferred"
    /\ dbExists' = FALSE
    /\ store' = << >>
    /\ logExists' = FALSE
    /\ logf' = EmptyBag
    /\ dbOpen' = FALSE
    /\ proc' = "exited"
    /\ mainPc' = "end"
    /\ UNCHANGED << failed, fixedVars, taskVars, archive, startKeys, steps >>

(***************************************************************************)
(* fetch, one goroutine per catalog entry                                  *)
(***************************************************************************)
mainVars == << mainPc, launched, dbExists, dbOpen, logExists, archive,
               startKeys, steps >>

\* Mutant: the panic ends the goroutine alone and the process goes on.
PanickedAlone(d) ==
    /\ proc' = proc
    /\ taskPc' = [taskPc EXCEPT ![d] = "panicked"]

\* An unrecovered panic in a goroutine ends the process: no deferred
\* function of main runs, the files stay as they are.
Panicked(d) ==
    /\ proc' = "crashed"
    /\ taskPc' = [taskPc EXCEPT ![d] = "panicked"]

\* What fetch names the request by in its entries: req.class in the
\* optional variant, req.prefix in the wildcard variant.
LogLabel(d) ==
    IF variant = "optional" THEN reqs(variant)[d].class
    ELSE reqs(variant)[d].name

\* runningTime(...), evaluated when "defer elapsed(runningTime(...))" is
\* reached, and the "requesting resource" entry.
BeginEntries(d) ==
    SetToBag({Entry("debug", "begin", LogLabel(d)),
              Entry("debug", "requesting resource", reqs(variant)[d].class)})

\* The deferred elapsed(...): it runs when fetch returns and when it panics.
DoneEntry(d) == Entry("debug", "done", LogLabel(d))

\* Mutant: a failed call is made once more.
AfterCallRetry(d) == IF remote[d].err /\ calls[d] = 0 THEN "start" ELSE "update"

\* Where fetch goes after a call that was not fatal.
AfterCall(d) == "update"

\* The API call and the handling of its error.
FetchCall(d) ==
    /\ proc = "running" /\ taskPc[d] = "start"
    /\ calls' = [calls EXCEPT ![d] = @ + 1]
    /\ LET class == reqs(variant)[d].class
           info == Entry("info", "fetching resource...", LogLabel(d))
       IN  IF FetchFatal(d)
           THEN /\ logf' = logf (+) SetToBag({info,
                              Entry("panic", "Failed to make request.", class)})
                /\ debugLog' = debugLog (+) BeginEntries(d)
                                        (+) SetToBag({DoneEntry(d)})
                /\ Fails("fetch")
                /\ Panicked(d)
                /\ UNCHANGED taskReq
           ELSE /\ logf' = IF variant = "wildcard" /\ remote[d].err
                           THEN logf (+) SetToBag({info,
                                  Entry("error", "failed to make request",
                                        class)})
                           ELSE Logged(info)
                /\ debugLog' = debugLog (+) BeginEntries(d)
                /\ taskPc' = [taskPc EXCEPT ![d] = AfterCall(d)]
                /\ taskReq' = [taskReq EXCEPT ![d] = Defaulted(@)]
                /\ UNCHANGED << proc, failed >>
    /\ UNCHANGED << fixedVars, mainVars, wg, txOwner, txIdx, txWrites, store >>

\* Mutant: db.Update wrapped around the whole of fetch, the call included.
TxBeginBeforeCall(d) ==
    /\ proc = "running" /\ taskPc[d] = "start"
    /\ txOwner = 0
    /\ txOwner' = d
    /\ txIdx' = 1
    /\ txWrites' = << >>
    /\ taskPc' = [taskPc EXCEPT ![d] = "intx"]
    /\ UNCHANGED << fixedVars, mainVars, proc, wg, store, logf, calls, failed,
                    debugLog, taskReq >>

\* db.Update begins: the writer lock of the store is taken.
TxBegin(d) ==
    /\ proc = "running" /\ taskPc[d] = "update"
    /\ txOwner = 0
    /\ txOwner' = d
    /\ txIdx' = 1
    /\ txWrites' = << >>
    /\ taskPc' = [taskPc EXCEPT ![d] = "intx"]
    /\ UNCHANGED << fixedVars, mainVars, proc, wg, store, logf, calls, failed,
                    debugLog, taskReq >>

\* Mutant: the check of the dn left out.
DnNeverRejected(rec) == FALSE

\* Mutant: the records of a count query are let through without a dn.
DnRejectedExceptCount(rec) ==
    variant = "wildcard" /\ GetDn(rec) = EmptyStr /\ "count" \notin DOMAIN rec

\* The wildcard variant's "if dn == "" { log.Panic()... }".
DnRejected(rec) == variant = "wildcard" /\ GetDn(rec) = EmptyStr

\* One turn of the loop over the records, inside the transaction. A panic
\* here unwinds through db.Update, whose deferred function commits the
\* transaction when the callback has returned no error.
TxSet(d) ==
    /\ proc = "running" /\ taskPc[d] = "intx"
    /\ txIdx <= Len(Records(d))
    /\ LET rec == Records(d)[txIdx]
       IN  IF DnRejected(rec)
           THEN /\ logf' = Logged(Entry("panic", "DN empty",
                                        reqs(variant)[d].class))
                /\ debugLog' = debugLog (+) SetToBag({DoneEntry(d)})
                /\ store' = Commit(store, txWrites)
                /\ txOwner' = 0
                /\ txIdx' = 0
                /\ txWrites' = << >>
                /\ Fails("dn")
                /\ Panicked(d)
           ELSE /\ txWrites' = TxSetKey(txWrites, RecordKey(d, rec), rec)
                /\ txIdx' = txIdx + 1
                /\ debugLog' = debugLog (+)
                       SetToBag({Entry("debug", "set_db", GetDn(rec))})
                /\ UNCHANGED << logf, store, txOwner, proc, taskPc, failed >>
    /\ UNCHANGED << fixedVars, mainVars, wg, calls, taskReq >>

\* The callback returns nil and the transaction commits.
TxCommit(d) ==
    /\ proc = "running" /\ taskPc[d] = "intx"
    /\ txIdx > Len(Records(d))
    /\ store' = Commit(store, txWrites)
    /\ txOwner' = 0
    /\ txIdx' = 0
    /\ txWrites' = << >>
    /\ taskPc' = [taskPc EXCEPT ![d] = "committed"]
    /\ UNCHANGED << fixedVars, mainVars, proc, wg, logf, calls, failed,
                    debugLog, taskReq >>

\* The commit cannot be written to the file: the transaction is rolled
\* back, db.Update returns the error and fetch panics.
TxCommitFail(d) ==
    /\ proc = "running" /\ taskPc[d] = "intx"
    /\ txIdx > Len(Records(d))
    /\ txOwner' = 0
    /\ txIdx' = 0
    /\ txWrites' = << >>
    /\ logf' = Logged(Entry("panic", "cannot write to db file", EmptyStr))
    /\ debugLog' = debugLog (+) SetToBag({DoneEntry(d)})
    /\ Fails("commit")
    /\ Panicked(d)
    /\ UNCHANGED << fixedVars, mainVars, wg, store, calls, taskReq >>

\* Mutant: the task signals its completion twice.
WgDoneTwice(d) ==
    /\ proc = "running" /\ taskPc[d] = "committed"
    /\ wg' = wg - 2
    /\ taskPc' = [taskPc EXCEPT ![d] = "done"]
    /\ debugLog' = debugLog (+) SetToBag({DoneEntry(d)})
    /\ UNCHANGED << fixedVars, mainVars, proc, txOwner, txIdx, txWrites,
                    store, logf, calls, failed, taskReq >>

\* wg.Done(), the last statement of fetch, and its return.
WgDone(d) ==
    /\ proc = "running" /\ taskPc[d] = "committed"
    /\ wg' = wg - 1
    /\ taskPc' = [taskPc EXCEPT ![d] = "done"]
    /\ debugLog' = debugLog (+) SetToBag({DoneEntry(d)})
    /\ UNCHANGED << fixedVars, mainVars, proc, txOwner, txIdx, txWrites,
                    store, logf, calls, failed, taskReq >>

\* The program is started again in the same directory, against the same
\* remote system: the files on disk are what the last run left, and the new
\* process begins as MainStart does (initLogger truncates the log file).
Restart ==
    /\ proc \in {"crashed", "exited"}
    /\ run < MaxRuns
    /\ run' = run + 1
    /\ proc' = "running"
    /\ logExists' = TRUE
    /\ logf' = EmptyBag
    /\ mainPc' = "login"
    /\ launched' = 0
    /\ wg' = 0
    /\ taskPc' = [d \in Tasks |-> "idle"]
    /\ txOwner' = 0
    /\ txIdx' = 0
    /\ txWrites' = << >>
    /\ dbOpen' = FALSE
    /\ startKeys' = {}
    /\ steps' = << >>
    /\ calls' = [d \in Tasks |-> 0]
    /\ failed' = {}
    /\ debugLog' = EmptyBag
    /\ taskReq' = [d \in Tasks |-> NoReq]
    /\ UNCHANGED << variant, remote, catalog, store, dbExists, archive,
                    fileVars, writerVars, argsVars >>

Next ==
    \/ MainStart
    \/ LoginOk
    \/ LoginFail
    \/ OpenOk
    \/ OpenFail
    \/ Launch
    \/ Wait
    \/ MetaOk
    \/ MetaFail
    \/ Close
    \/ CloseFail
    \/ ArchiveOk
    \/ ArchiveFail
    \/ Complete
    \/ Recover
    \/ Deferred
    \/ \E d \in Tasks : FetchCall(d)
    \/ \E d \in Tasks : TxBegin(d)
    \/ \E d \in Tasks : TxSet(d)
    \/ \E d \in Tasks : TxCommit(d)
    \/ \E d \in Tasks : TxCommitFail(d)
    \/ \E d \in Tasks : WgDone(d)

\* One run of the program in an empty directory.
Spec == Init /\ [][Next]_vars

NextRerun == Next \/ Restart

\* Up to MaxRuns runs, one after the other, in the same directory.
SpecRerun == Init /\ [][NextRerun]_vars

TypeOK ==
    /\ variant \in Variants
    /\ run \in 1..MaxRuns
    /\ proc \in {"running", "crashed", "exited"}
    /\ launched \in 0..N
    /\ wg \in 0..N
    /\ txOwner \in 0..N
    /\ dbExists \in BOOLEAN /\ dbOpen \in BOOLEAN /\ logExists \in BOOLEAN

(***************************************************************************)
(* Properties                                                              *)
(***************************************************************************)
AllDone == \A d \in Tasks : taskPc[d] = "done"

Prefix(d) == EffName(reqs(variant)[d])

KeysUnder(st, prefix) == {k \in DOMAIN st : MatchesPrefix(k, prefix)}

\* The dn of each object of the answer to entry d.
AnswerDns(d) ==
    [i \in 1..Len(remote[d].elems) |-> GetDn(remote[d].elems[i].attributes)]

DistinctDns(d) ==
    \A i, j \in 1..Len(remote[d].elems) :
        i # j => AnswerDns(d)[i] # AnswerDns(d)[j]

RECURSIVE SumRecords(_)
SumRecords(n) == IF n = 0 THEN 0 ELSE Len(remote[n].elems) + SumRecords(n - 1)

Finalisation == <<"meta", "close", "archive">>

\* The answer to entry d is an error and the entry is not optional.
RequiredFails(d) == remote[d].err /\ ~reqs(variant)[d].optional

\* A store without the timestamp of its metadata.
StripTimestamp(st) ==
    [k \in DOMAIN st |->
        IF k = MetaKey
        THEN [collectorVersion |-> st[k].collectorVersion,
              schemaVersion |-> st[k].schemaVersion]
        ELSE st[k]]

\* The keys the records of the answer to entry d are written under.
AnswerKeys(d) == {RecordKey(d, Records(d)[i]) : i \in 1..Len(Records(d))}

\* C1: the metadata transaction never begins, and "meta" is never in the
\* store, while a launched fetch task has not finished its transaction and
\* called wg.Done().
C1_MetaAfterAllTasks ==
    (mainPc = "meta" \/ MetaKey \in DOMAIN store)
        => /\ launched = N
           /\ AllDone
           /\ txOwner = 0
           /\ wg = 0

C1_Witness ==
    /\ mainPc = "close"
    /\ MetaKey \in DOMAIN store
    /\ AllDone
    /\ Cardinality(DOMAIN store) >= 3

\* C2: in the optional variant, when the call of a required entry fails,
\* the task that made the call has ended the process, and "meta" is never
\* written: main never gets past wg.Wait().
C2_RequiredFailureAborts ==
    (variant = "optional" /\ \E d \in Tasks : RequiredFails(d))
        => /\ MetaKey \notin DOMAIN store
           /\ mainPc \notin {"meta", "close", "archive", "complete"}
           /\ ~archive.exists
           /\ \A d \in Tasks :
                 RequiredFails(d) => taskPc[d] \in {"idle", "start", "panicked"}
           /\ (\E d \in Tasks : taskPc[d] = "panicked") => proc = "crashed"

C2_Witness ==
    /\ variant = "optional"
    /\ proc = "crashed"
    /\ \E d \in Tasks : RequiredFails(d) /\ taskPc[d] = "panicked"
    /\ \E d \in Tasks : taskPc[d] = "done"
    /\ DOMAIN store # {}

\* C3: when the call of an optional entry fails and the run completes, the
\* metadata is written, the archive exists, no key lies under the entry's
\* prefix and the log holds an entry above Info level for that class.
C3_OptionalFailureLogged ==
    \A d \in Tasks :
        (/\ variant = "optional"
         /\ reqs(variant)[d].optional
         /\ remote[d].err
         /\ mainPc = "complete")
        => /\ MetaKey \in DOMAIN store
           /\ archive.exists
           /\ KeysUnder(store, Prefix(d)) = {}
           /\ \E e \in BagToSet(archive.log) :
                 e.class = reqs(variant)[d].class /\ e.level # "info"

\* C4, as stated: once a run in which every call succeeded completes, the
\* store holds as many record keys as the answers hold records.
C4_KeyCountIsRecordCount ==
    (mainPc = "complete" /\ \A d \in Tasks : ~remote[d].err)
        => Cardinality(DOMAIN store \ {MetaKey}) = SumRecords(N)

\* C4, amended: the same, for answers whose records have pairwise distinct
\* dn (records of one answer that share a dn share a key).
C4_KeyCountDistinctDns ==
    (/\ mainPc = "complete"
     /\ \A d \in Tasks : ~remote[d].err /\ DistinctDns(d))
        => Cardinality(DOMAIN store \ {MetaKey}) = SumRecords(N)

C4_Witness ==
    /\ mainPc = "complete"
    /\ \A d \in Tasks : ~remote[d].err /\ DistinctDns(d)
    /\ SumRecords(N) >= N + 1

\* C5: once fetch has committed for an entry with prefix P, every key of
\* the store that matches P:* is P + ":" + the dn of the value it holds.
C5_KeyIsPrefixAndDn ==
    \A d \in Tasks :
        taskPc[d] \in {"committed", "done"}
        => \A k \in KeysUnder(store, Prefix(d)) :
              k = KeyOf(Prefix(d), GetDn(store[k]))

C5_Witness ==
    \E d \in Tasks :
        /\ taskPc[d] = "done"
        /\ Cardinality(KeysUnder(store, Prefix(d))) = 2

\* C6: for an entry with the default rule whose answer holds n records with
\* pairwise distinct, non-empty dn, a committed fetch leaves exactly n keys
\* under the prefix, prefix:dn for each record, holding its attributes.
C6_AllRecordsPersisted ==
    \A d \in Tasks :
        (/\ reqs(variant)[d].filter = EmptyStr
         /\ ~remote[d].err
         /\ DistinctDns(d)
         /\ \A i \in 1..Len(remote[d].elems) : AnswerDns(d)[i] # EmptyStr
         /\ taskPc[d] \in {"committed", "done"}
         /\ dbExists)
        => /\ Cardinality(KeysUnder(store, Prefix(d))) = Len(remote[d].elems)
           /\ \A i \in 1..Len(remote[d].elems) :
                 LET k == KeyOf(Prefix(d), AnswerDns(d)[i])
                 IN  /\ k \in DOMAIN store
                     /\ store[k] = remote[d].elems[i].attributes

C6_Witness ==
    \E d \in Tasks :
        /\ reqs(variant)[d].filter = EmptyStr
        /\ Len(remote[d].elems) = 2
        /\ DistinctDns(d)
        /\ \A i \in 1..2 : AnswerDns(d)[i] # EmptyStr
        /\ taskPc[d] = "committed"
        /\ Cardinality(KeysUnder(store, Prefix(d))) = 2

\* C7: a run that started on an empty store and has closed it holds the
\* keys and values of the store archived by the complete run before it,
\* the timestamp of "meta" apart.
C7_RerunIdentical ==
    (/\ run > 1
     /\ mainPc = "archive"
     /\ archive.exists
     /\ startKeys = {})
        => /\ MetaKey \in DOMAIN store
           /\ StripTimestamp(store) = StripTimestamp(archive.db)

C7_Witness ==
    /\ run = 2
    /\ mainPc = "archive"
    /\ archive.exists
    /\ startKeys = {}
    /\ store[MetaKey].timestamp # archive.db[MetaKey].timestamp
    /\ Cardinality(DOMAIN store) >= 5

\* C8: when a run has opened the store and launched no task yet, the store
\* holds no key.
C8_StoreEmptyAtRunStart ==
    (mainPc = "launch" /\ launched = 0) => DOMAIN store = {}

\* C9: for each entry the store holds none or all of the keys of the
\* records of its answer, and none after its transaction has panicked.
C9_AllOrNothing ==
    \A d \in Tasks :
        /\ \/ AnswerKeys(d) \cap DOMAIN store = {}
           \/ AnswerKeys(d) \subseteq DOMAIN store
        /\ taskPc[d] = "panicked" => AnswerKeys(d) \cap DOMAIN store = {}

\* C10: the finalisation steps are taken in the order meta, close, archive,
\* each once and only after every task is done; a completed run has taken
\* all three and archived the store file and the log file as they are; and
\* the store is not written after the close.
C10_FinalisationOrder ==
    /\ [](/\ \E n \in 0..3 : steps = SubSeq(Finalisation, 1, n)
          /\ steps # << >> => AllDone /\ txOwner = 0
          /\ Len(steps) >= 2 => ~dbOpen
          /\ mainPc = "complete"
                => /\ steps = Finalisation
                   /\ MetaKey \in DOMAIN store
                   /\ archive = [exists |-> TRUE, db |-> store, log |-> logf])
    /\ [][(Len(steps) >= 2 /\ dbExists') => store' = store]_vars

C10_Witness ==
    /\ mainPc = "complete"
    /\ steps = Finalisation
    /\ archive.exists
    /\ Cardinality(DOMAIN archive.db) >= 4

\* The failures of the store: open, commit of a task's transaction, the
\* metadata transaction, close.
StoreFailures == {"open", "commit", "meta", "close"}

\* The archival sink has been invoked in this run.
ArchiveInvoked == \E i \in 1..Len(steps) : steps[i] = "archive"

\* C11: after a failure of the store (open, commit, metadata, close) the
\* archive is never created and the run never reports completion.
C11_StoreFailureFatal ==
    (failed \cap StoreFailures # {})
        => /\ ~ArchiveInvoked
           /\ ~archive.exists
           /\ mainPc # "complete"

\* The failures that stop the run: log.Panic in a task or in main.
FatalFailures ==
    {"login", "open", "fetch", "dn", "commit", "meta", "archive"}

\* The process of this run is over.
RunEnded == proc \in {"crashed", "exited"}

\* C12: when a run that failed is over, the log file is on disk, and so is
\* the store file when the run had created it.
C12_FilesKeptOnFailure ==
    (RunEnded /\ failed \cap FatalFailures # {})
        => /\ logExists
           /\ (failed \cap {"login", "open"} = {}) => dbExists

\* The records of the answer to entry d that come before its first record
\* with an empty dn.
RECURSIVE BeforeEmptyDn(_)
BeforeEmptyDn(recs) ==
    IF recs = << >> \/ GetDn(Head(recs)) = EmptyStr THEN << >>
    ELSE <<Head(recs)>> \o BeforeEmptyDn(Tail(recs))

HasEmptyDn(d) == \E i \in 1..Len(Records(d)) : GetDn(Records(d)[i]) = EmptyStr

\* C13: in the wildcard variant, once the loop of fetch has come to a record
\* whose dn is empty or missing, the task has panicked with "DN empty", an
\* entry that no failed call produces (a failed call logs the error "failed
\* to make request" and goes on), and the record is not in the store.
C13_EmptyDnRaised ==
    \A d \in Tasks :
        (/\ variant = "wildcard"
         /\ HasEmptyDn(d)
         /\ \/ taskPc[d] \in {"committed", "done", "panicked"}
            \/ taskPc[d] = "intx" /\ txIdx > Len(BeforeEmptyDn(Records(d))) + 1)
        => /\ taskPc[d] = "panicked"
           /\ "dn" \in failed
           /\ proc = "crashed"
           /\ BagIn(Entry("panic", "DN empty", reqs(variant)[d].class), logf)
           /\ CopiesIn(Entry("error", "failed to make request",
                              reqs(variant)[d].class), logf)
                = Cardinality({e \in Tasks :
                                 /\ reqs(variant)[e].class = reqs(variant)[d].class
                                 /\ remote[e].err
                                 /\ calls[e] = 1})
           /\ KeyOf(Prefix(d), EmptyStr) \notin DOMAIN store
           /\ KeyOf(Prefix(d), EmptyStr) \notin DOMAIN txWrites

C13_Witness ==
    \E d \in Tasks :
        /\ variant = "wildcard"
        /\ taskPc[d] = "panicked"
        /\ Len(Records(d)) = 2
        /\ GetDn(Records(d)[2]) = EmptyStr
        /\ BagIn(Entry("panic", "DN empty", reqs(variant)[d].class), logf)

\* The answer to entry d is a count: one moCount object that has no dn.
CountAnswer(d) ==
    /\ ~remote[d].err
    /\ Len(remote[d].elems) = 1
    /\ remote[d].elems[1].tag = "moCount"
    /\ "dn" \notin DOMAIN remote[d].elems[1].attributes

\* C14: a task whose answer is a count raises no "DN empty" failure, and
\* once it has committed the store holds exactly one record under its
\* prefix, the attributes of the moCount object.
C14_CountRecordPersisted ==
    \A d \in Tasks :
        (CountAnswer(d) /\ taskPc[d] \in {"committed", "done", "panicked"})
        => /\ ~BagIn(Entry("panic", "DN empty", reqs(variant)[d].class), logf)
           /\ (taskPc[d] # "panicked" /\ dbExists)
                => /\ KeysUnder(store, Prefix(d)) = {KeyOf(Prefix(d), EmptyStr)}
                   /\ store[KeyOf(Prefix(d), EmptyStr)]
                        = remote[d].elems[1].attributes

\* The store holds, under the prefix of entry d, the keys of the records
\* that the rule selects from the answer to d, each with its record.
StoredBy(d, rule) ==
    LET recs == Extract(ResOf(variant, remote[d]), rule)
    IN  /\ KeysUnder(store, Prefix(d))
             = {KeyOf(Prefix(d), GetDn(recs[i])) : i \in 1..Len(recs)}
        /\ \A i \in 1..Len(recs) :
              \E j \in i..Len(recs) :
                 /\ GetDn(recs[j]) = GetDn(recs[i])
                 /\ store[KeyOf(Prefix(d), GetDn(recs[i]))] = recs[j]

\* C15, as stated: in the optional variant a committed task has stored what
\* its own rule selects, or without one the default rule of its class.
C15_RuleFromClass ==
    \A d \in Tasks :
        (/\ variant = "optional"
         /\ taskPc[d] \in {"committed", "done"}
         /\ dbExists)
        => LET r == reqs(variant)[d]
           IN  StoredBy(d, IF r.filter # EmptyStr THEN r.filter
                           ELSE DefaultFilter(r.class))

\* C15, amended: the same, with the default rule of the entry's name (the
\* class when the entry has no name of its own).
C15_RuleFromName ==
    \A d \in Tasks :
        (/\ variant = "optional"
         /\ taskPc[d] \in {"committed", "done"}
         /\ dbExists)
        => LET r == reqs(variant)[d]
           IN  StoredBy(d, IF r.filter # EmptyStr THEN r.filter
                           ELSE IF r.name # EmptyStr THEN DefaultFilter(r.name)
                           ELSE DefaultFilter(r.class))

C15_Witness ==
    \E d \in Tasks :
        /\ variant = "optional"
        /\ reqs(variant)[d].name # EmptyStr
        /\ reqs(variant)[d].name # reqs(variant)[d].class
        /\ reqs(variant)[d].filter = EmptyStr
        /\ taskPc[d] = "done"
        /\ KeysUnder(store, Prefix(d)) # {}
        /\ \E e \in Tasks :
              /\ reqs(variant)[e].filter # EmptyStr
              /\ taskPc[e] = "done"
              /\ KeysUnder(store, Prefix(e)) # {}

\* C16: no entry's call is made twice in a run; a task that is past its
\* call has made it once, failed or not; and when wg.Wait() has returned
\* every entry's call has been made once.
C16_OneCallPerEntry ==
    /\ \A d \in Tasks : calls[d] <= 1
    /\ \A d \in Tasks : (taskPc[d] \notin {"idle", "start"}) => calls[d] = 1
    /\ \A d \in Tasks : taskPc[d] = "idle" => calls[d] = 0
    /\ mainPc \in {"meta", "close", "archive", "complete"}
          => \A d \in Tasks : calls[d] = 1

C16_Witness ==
    /\ mainPc = "complete"
    /\ \E d \in Tasks : remote[d].err /\ calls[d] = 1
    /\ \A d \in Tasks : calls[d] = 1

\* C17: the task inside db.Update is one whose call has returned and that
\* is in its loop; no write is pending outside a transaction; a task opens
\* a transaction only after its call and never a second one; the store
\* changes only by the commit of the open transaction or in main; and when
\* no task is inside db.Update, a task that is ready can open its own,
\* whatever calls the other tasks are waiting for.
C17_NoLockAcrossCall ==
    /\ [](/\ \A d \in Tasks :
               /\ txOwner = d => taskPc[d] = "intx" /\ calls[d] = 1
               /\ taskPc[d] = "intx" => txOwner = d
               /\ taskPc[d] \in {"idle", "start"} => txOwner # d
          /\ txOwner = 0 => txWrites = << >>
          /\ \A e \in Tasks :
               (proc = "running" /\ taskPc[e] = "update" /\ txOwner = 0)
                  => ENABLED TxBegin(e))
    /\ [][/\ \A d \in Tasks :
               /\ (txOwner' = d /\ txOwner # d)
                    => taskPc[d] = "update" /\ calls[d] = 1
               /\ taskPc[d] \in {"intx", "committed", "done", "panicked"}
                    => taskPc'[d] # "update"
          /\ (store' # store /\ proc = "running"
                /\ mainPc \in {"launch", "wait"})
               => txOwner # 0 /\ txOwner' = 0]_vars

C17_Witness ==
    \E d, e \in Tasks :
        /\ d # e
        /\ txOwner = d
        /\ Len(Records(d)) = 2
        /\ txIdx = 2
        /\ taskPc[e] = "start"
        /\ calls[e] = 0

\* C18: when main has archived, the archive holds the store file and the
\* log file as they are; when a run that archived is over, the archive is
\* there and neither the store file nor the log file is on disk; and a log
\* file is on disk after a run only when the run failed.
C18_SuccessLeavesOnlyArchive ==
    /\ mainPc = "complete"
          => archive = [exists |-> TRUE, db |-> store, log |-> logf]
    /\ (mainPc = "end" /\ ArchiveInvoked)
          => /\ archive.exists
             /\ MetaKey \in DOMAIN archive.db
             /\ Entry("info", "Creating archive", EmptyStr)
                   \in BagToSet(archive.log)
             /\ ~dbExists
             /\ ~logExists
    /\ (RunEnded /\ logExists) => failed \cap FatalFailures # {}

C18_Witness ==
    /\ mainPc = "end"
    /\ steps = Finalisation
    /\ failed = {}
    /\ archive.exists
    /\ Cardinality(DOMAIN archive.db) >= 4
    /\ ~dbExists /\ ~logExists

\* The labels and the classes of the catalog.
Labels == {LogLabel(d) : d \in Tasks}

Classes == {reqs(variant)[d].class : d \in Tasks}

\* The entries of the log, at Error level or above, that report a failed
\* call of the class.
CallFailureEntries(class) ==
    CopiesIn(Entry("panic", "Failed to make request.", class), logf)
    + CopiesIn(Entry("error", "failed to make request", class), logf)

\* The begin and done entries are there, one for each task that began and
\* one for each task that ended.
BeginEndPaired ==
    \A l \in Labels :
        /\ CopiesIn(Entry("debug", "begin", l), debugLog)
             = Cardinality({d \in Tasks : LogLabel(d) = l /\ calls[d] = 1})
        /\ CopiesIn(Entry("debug", "done", l), debugLog)
             = Cardinality({d \in Tasks : /\ LogLabel(d) = l
                                          /\ taskPc[d] \in {"done", "panicked"}})

\* C19: every task that made its call has logged one begin entry, every
\* task that ended one done entry, and the log file, while it is on disk,
\* holds one error or panic entry for each call that failed.
C19_BeginEndAndFailureEntries ==
    /\ BeginEndPaired
    /\ \A c \in Classes :
          logExists =>
          CallFailureEntries(c)
             = Cardinality({d \in Tasks : /\ reqs(variant)[d].class = c
                                          /\ calls[d] = 1
                                          /\ remote[d].err})

\* The string holds the credential.
Mentions(str, cred) == \E i \in 1..Len(str) : str[i] = cred[1]

\* An entry of the log holds the credential in one of its fields.
LogMentions(log, cred) == \E e \in BagToSet(log) : Mentions(e.class, cred)

\* A key or a value of the store holds the credential.
StoreMentions(st, cred) ==
    \E k \in DOMAIN st :
        \/ Mentions(k, cred)
        \/ IF k = MetaKey THEN Mentions(st[k].collectorVersion, cred)
           ELSE \E f \in DOMAIN st[k] : Mentions(st[k][f], cred)

\* The credential is in none of the files.
NotStored(cred) ==
    /\ ~LogMentions(logf, cred)
    /\ ~StoreMentions(store, cred)
    /\ ~LogMentions(archive.log, cred)
    /\ ~StoreMentions(archive.db, cred)

\* C20: neither the username nor the password of the run is in the store,
\* in the log file or in the archive.
C20_CredentialsNotStored == NotStored(Username) /\ NotStored(Password)

\* C21: a run that is over has come to the pause at the end of main's
\* deferred function, and a run that failed has logged "Collection failed."
\* in the recover handler before it.
C21_EndsAtPause ==
    /\ RunEnded => mainPc = "end"
    /\ (mainPc = "deferred" /\ failed \cap FatalFailures # {})
          => BagIn(Entry("error", "Collection failed.", EmptyStr), logf)

\* C22: the goroutines launched are those of the first entries of the
\* catalog, one each; each has its own entry as parameter, a copy that only
\* its own defaulting changes; the catalog is never changed; and main waits
\* only when it has launched them all.
C22_OneTaskPerEntry ==
    /\ catalog = reqs(variant)
    /\ \A d \in Tasks :
          /\ (d <= launched) <=> (taskPc[d] # "idle")
          /\ d > launched => taskReq[d] = NoReq
          /\ taskPc[d] = "start" => taskReq[d] = catalog[d]
          /\ (d <= launched /\ taskPc[d] # "start")
                => \/ taskReq[d] = Defaulted(catalog[d])
                   \/ taskPc[d] = "panicked" /\ taskReq[d] = catalog[d]
    /\ wg <= launched
    /\ mainPc \in {"wait", "meta", "close", "archive", "complete"}
          => launched = N

C22_Witness ==
    /\ mainPc = "wait"
    /\ launched = N
    /\ variant = "optional"
    /\ \E d \in Tasks : taskPc[d] = "start" /\ taskReq[d] = catalog[d]
    /\ \E d \in Tasks : /\ taskPc[d] = "done"
                        /\ taskReq[d] # catalog[d]
                        /\ catalog[d].name = EmptyStr

\* The records fetch would iterate over for entry d were the answers rem.
RecordsIn(rem, d) ==
    Extract(ResOf(variant, rem[d]), EffFilter(variant, reqs(variant)[d]))

\* The records of a store: all its keys but the metadata.
NonMeta(st) == [k \in DOMAIN st \ {MetaKey} |-> st[k]]

\* What the transactions of all the tasks leave in an empty store when the
\* answers are rem: under each key, the last record set under it.
ExpectedOf(rem) ==
    LET pairs == {p \in Tasks \X (1..MaxRecs) : p[2] <= Len(RecordsIn(rem, p[1]))}
        rec(p) == RecordsIn(rem, p[1])[p[2]]
        key(p) == KeyOf(Prefix(p[1]), GetDn(rec(p)))
        last(k) == CHOOSE p \in pairs :
                       /\ key(p) = k
                       /\ \A q \in pairs :
                             key(q) = k => q[1] = p[1] /\ q[2] <= p[2]
    IN  [k \in {key(p) : p \in pairs} |-> rec(last(k))]

\* The optional entries whose call failed, the failure being tolerated.
ToleratedFailures ==
    {d \in Tasks : /\ variant = "optional"
                   /\ reqs(variant)[d].optional
                   /\ remote[d].err}

\* C23: a tolerated failure of an optional entry writes nothing, and the
\* records of the completed run are those of a run in which that entry was
\* answered by an empty response: none under its prefix, and under the
\* other prefixes the same keys with the same values.
C23_ToleratedFailureFrame ==
    /\ \A d \in ToleratedFailures : txOwner = d => txWrites = << >>
    /\ mainPc = "complete"
          => /\ NonMeta(store) = ExpectedOf(remote)
             /\ \A d \in ToleratedFailures :
                   /\ NonMeta(store) = ExpectedOf([remote EXCEPT ![d] = Ok(<< >>)])
                   /\ KeysUnder(store, Prefix(d)) = {}

C23_Witness ==
    /\ mainPc = "complete"
    /\ ToleratedFailures # {}
    /\ Cardinality(DOMAIN NonMeta(store)) >= 3

\* The tasks whose transaction has been committed by db.Update's return.
Committed(d) == taskPc[d] \in {"committed", "done"}

\* C24: when two records of one response have the same dn, the task's
\* commit leaves one key prefix:dn for them, and it holds the later record
\* for as long as the database file is there.
C24_LaterRecordWins ==
    \A d \in Tasks :
        (Committed(d) /\ dbExists) =>
            \A i, j \in 1..Len(Records(d)) :
                (/\ i < j
                 /\ GetDn(Records(d)[i]) = GetDn(Records(d)[j])
                 /\ \A k \in (j + 1)..Len(Records(d)) :
                       GetDn(Records(d)[k]) # GetDn(Records(d)[j]))
                    => /\ RecordKey(d, Records(d)[j]) \in DOMAIN store
                       /\ store[RecordKey(d, Records(d)[j])] = Records(d)[j]
                       /\ store[RecordKey(d, Records(d)[j])] # Records(d)[i]
                       /\ Cardinality({k \in DOMAIN store :
                              /\ MatchesPrefix(k, Prefix(d))
                              /\ store[k] \in {Records(d)[i], Records(d)[j]}})
                             = 1

C24_Witness ==
    \E d \in Tasks :
        /\ Committed(d)
        /\ Len(Records(d)) = 2
        /\ GetDn(Records(d)[1]) = DnA
        /\ GetDn(Records(d)[2]) = DnA
        /\ store[KeyOf(Prefix(d), DnA)] = Records(d)[2]

\* The entries that give a db prefix of their own, other than their class.
ExplicitPrefix(d) ==
    catalog[d].name # EmptyStr /\ catalog[d].name # catalog[d].class

\* The prefix the description gives entry d: its own if it has one, its
\* class otherwise.
DescribedPrefix(d) ==
    IF ExplicitPrefix(d) THEN catalog[d].name ELSE catalog[d].class

\* C25: every key a task sets is under the entry's own prefix when it has
\* one, and then not under its class, and under its class when it has none;
\* and after the task's commit each of its records is stored under that
\* prefix.
C25_PrefixOrClass ==
    \A d \in Tasks :
        /\ txOwner = d =>
              \A k \in DOMAIN txWrites :
                  /\ MatchesPrefix(k, DescribedPrefix(d))
                  /\ ExplicitPrefix(d) => ~MatchesPrefix(k, catalog[d].class)
        /\ (Committed(d) /\ dbExists) =>
              \A i \in 1..Len(Records(d)) :
                  KeyOf(DescribedPrefix(d), GetDn(Records(d)[i]))
                     \in DOMAIN store

C25_Witness ==
    \E d, c \in Tasks :
        /\ ExplicitPrefix(d) /\ ~ExplicitPrefix(c)
        /\ Committed(d) /\ Committed(c)
        /\ KeysUnder(store, catalog[d].name) # {}
        /\ KeysUnder(store, catalog[c].class) # {}
        /\ txOwner = 0

\* The entries of the wildcard variant whose call has been made and failed.
FailedCalls ==
    {d \in Tasks : variant = "wildcard" /\ remote[d].err /\ calls[d] >= 1}

\* C26: in the wildcard variant a failed call raises nothing: it is logged
\* at Error level, the task finds no record and sets no key, the task can go
\* on through its transaction to wg.Done(), and main is past the wait only
\* when the task is done.
C26_WildcardErrorNotFatal ==
    \A d \in FailedCalls :
        /\ "fetch" \notin failed
        /\ logExists => BagIn(Entry("error", "failed to make request",
                                    catalog[d].class), logf)
        /\ Records(d) = << >>
        /\ txOwner = d => txWrites = << >>
        /\ KeysUnder(store, Prefix(d)) = {}
        /\ taskPc[d] = "panicked" => "commit" \in failed
        /\ (proc = "running" /\ taskPc[d] = "update" /\ txOwner = 0)
              => ENABLED TxBegin(d)
        /\ (proc = "running" /\ taskPc[d] = "intx") => ENABLED TxCommit(d)
        /\ (proc = "running" /\ taskPc[d] = "committed") => ENABLED WgDone(d)
        /\ mainPc \in {"meta", "close", "archive", "complete"}
              => taskPc[d] = "done"

C26_Witness ==
    /\ FailedCalls # {}
    /\ mainPc = "complete"
    /\ AllDone
    /\ MetaKey \in DOMAIN store
    /\ store[MetaKey] = Metadata

\* The keys of the form prefix:dn, for a prefix of the catalog and a dn that
\* is not empty.
WellFormedKeys ==
    {KeyOf(Prefix(d), dn) : d \in Tasks, dn \in Dns \ {EmptyStr}}

\* C27: in the wildcard variant every key of the store and of the open
\* transaction, the metadata aside, is prefix:dn with a dn that is not
\* empty; a task that met a record without dn, a count record included, has
\* panicked with no key set for that record.
C27_WildcardKeysHaveDn ==
    variant = "wildcard" =>
        /\ DOMAIN store \ {MetaKey} \subseteq WellFormedKeys
        /\ DOMAIN txWrites \subseteq WellFormedKeys
        /\ \A d \in Tasks :
              /\ (Committed(d) \/ (taskPc[d] = "panicked" /\ "dn" \in failed))
                    => KeyOf(Prefix(d), EmptyStr) \notin DOMAIN store
              /\ Committed(d) => ~HasEmptyDn(d)
              /\ (CountAnswer(d) /\ txOwner = d) => txWrites = << >>
              /\ (CountAnswer(d) /\ taskPc[d] \notin {"idle", "start", "update", "intx"})
                    => taskPc[d] = "panicked" /\ "dn" \in failed

C27_Witness ==
    /\ variant = "wildcard"
    /\ \E d \in Tasks : CountAnswer(d) /\ taskPc[d] = "panicked"
    /\ "dn" \in failed
    /\ DOMAIN store # {}

\* The tasks launched that have not called wg.Done().
Unsignalled == {d \in Tasks : taskPc[d] \notin {"idle", "done"}}

\* C28: the counter of the wait group is the number of tasks launched and
\* not yet done, never below zero; main is past wg.Wait() only when every
\* task is done; the counter goes up by one in the step that launches a
\* task and down by one in the step in which a task that committed returns,
\* and in no other step of a run.
C28_WaitGroupCounts ==
    /\ [](/\ wg = Cardinality(Unsignalled)
          /\ wg >= 0
          /\ mainPc \in {"meta", "close", "archive", "complete"} => AllDone)
    /\ [][/\ \A d \in Tasks :
                (taskPc[d] = "idle" /\ taskPc'[d] # "idle")
                   => wg' = wg + 1 /\ taskPc'[d] = "start"
          /\ wg' > wg => wg' = wg + 1 /\ launched' = launched + 1
          /\ wg' < wg =>
                /\ wg' = wg - 1
                /\ \E d \in Tasks :
                      /\ taskPc[d] = "committed" /\ taskPc'[d] = "done"
                      /\ \A c \in Tasks \ {d} : taskPc'[c] = taskPc[c]
          /\ \A d \in Tasks : taskPc[d] = "done" => taskPc'[d] = "done"]_vars

C28_Witness ==
    /\ mainPc = "wait"
    /\ launched = N
    /\ wg = 1
    /\ Cardinality({d \in Tasks : taskPc[d] = "done"}) = N - 1
    /\ ~ENABLED Wait

\* The entries of a sequence, as a set.
Range(seq) == {seq[i] : i \in DOMAIN seq}

\* No two entries of a catalog have the same effective prefix.
DistinctPrefixes(cat) ==
    \A i, j \in DOMAIN cat : i # j => EffName(cat[i]) # EffName(cat[j])

\* Both catalogs in full have pairwise distinct effective prefixes.
FullCatalogsDistinct ==
    DistinctPrefixes(reqsOptionalFull) /\ DistinctPrefixes(reqsWildcardFull)

OptionalEntries == Range(reqsOptionalFull)

WildcardEntries == Range(reqsWildcardFull)

\* The entries of the catalog in full of the variant that runs.
FullEntries ==
    IF variant = "optional" THEN OptionalEntries ELSE WildcardEntries

\* The keys task d sets, given the answers.
KeysOf(d) == {RecordKey(d, Records(d)[i]) : i \in 1..Len(Records(d))}

\* C29: the effective prefixes of both catalogs in full are pairwise
\* distinct, and so are those of the entries that run, which are entries of
\* the catalog in full; no key a task sets is under the prefix of another
\* task or among the keys of another task; and the records of a completed
\* run are those computed from the answers alone, whatever the order in
\* which the tasks committed.
C29_DistinctPrefixes ==
    /\ FullCatalogsDistinct
    /\ Range(catalog) \subseteq FullEntries
    /\ DistinctPrefixes(catalog)
    /\ \A d \in Tasks :
          txOwner = d =>
              \A k \in DOMAIN txWrites :
                  \A c \in Tasks \ {d} :
                      ~MatchesPrefix(k, Prefix(c)) /\ k \notin KeysOf(c)
    /\ mainPc = "complete" => NonMeta(store) = ExpectedOf(remote)

\* Two tasks have committed records of the same dn, the later entry first.
C29_Witness ==
    \E d, c \in Tasks :
        /\ d < c
        /\ taskPc[c] \in {"committed", "done"}
        /\ taskPc[d] = "intx"
        /\ KeysUnder(store, Prefix(c)) # {}
        /\ DOMAIN txWrites # {}
        /\ \E k \in DOMAIN txWrites, h \in DOMAIN store :
              /\ MatchesPrefix(h, Prefix(c))
              /\ GetDn(store[h]) = DnA
              /\ GetDn(txWrites[k]) = DnA

\* The key holds the separator ":".
HasSeparator(key) == \E i \in 1..Len(key) : key[i] = ":"

\* The value under the metadata key, or none.
MetaOf(st) == IF MetaKey \in DOMAIN st THEN <<st[MetaKey]>> ELSE << >>

\* C30: every key a task sets holds the separator and is not "meta"; the
\* store of a run has "meta" only once main has written the metadata, and
\* then it holds the metadata; what "meta" holds changes only in main's
\* metadata step, and never in a step of a task.
C30_MetaOnlyByFinalizer ==
    /\ [](/\ ~HasSeparator(MetaKey)
          /\ \A k \in DOMAIN txWrites : HasSeparator(k) /\ k # MetaKey
          /\ \A d \in Tasks : \A k \in KeysOf(d) : HasSeparator(k)
          /\ MetaKey \in DOMAIN store
                => /\ \E i \in 1..Len(steps) : steps[i] = "meta"
                   /\ store[MetaKey] = Metadata
          /\ mainPc = "complete"
                => MetaKey \in DOMAIN store /\ store[MetaKey] = Metadata)
    /\ [][(MetaOf(store') # MetaOf(store) /\ MetaOf(store') # << >>)
             => /\ mainPc = "meta" /\ mainPc' = "close"
                /\ taskPc' = taskPc
                /\ MetaOf(store') = <<Metadata>>]_vars

C30_Witness ==
    /\ mainPc = "complete"
    /\ MetaKey \in DOMAIN store
    /\ store[MetaKey] = Metadata
    /\ Cardinality(DOMAIN store) >= 4
    /\ \A k \in DOMAIN store \ {MetaKey} : HasSeparator(k)

\* The steps of the main goroutine.
MainNext ==
    \/ MainStart \/ LoginOk \/ LoginFail \/ OpenOk \/ OpenFail \/ Launch
    \/ Wait \/ MetaOk \/ MetaFail \/ Close \/ CloseFail \/ ArchiveOk
    \/ ArchiveFail \/ Complete \/ Recover \/ Deferred

\* The steps of the goroutine of entry d, when the catalog has an entry d.
FetchNext(d) ==
    /\ d \in Tasks
    /\ \/ FetchCall(d) \/ TxBegin(d) \/ TxSet(d) \/ TxCommit(d)
       \/ TxCommitFail(d) \/ WgDone(d)

\* One run in which every goroutine that can take a step takes one in the
\* end: the scheduler runs every runnable goroutine, every API call
\* returns, and so does every operation on the files.
SpecLive ==
    /\ Init
    /\ [][Next]_vars
    /\ WF_vars(MainNext)
    /\ \A d \in 1..Len(reqsOptional) : WF_vars(FetchNext(d))

\* The run archived: the three steps of the finalisation are done.
RanToArchive ==
    /\ AllDone
    /\ \E i \in 1..Len(steps) : steps[i] = "archive"

\* C31: every run ends; a run that ended without any failure has every
\* task done and went through to the archive, every other run that ended
\* met a failure; main is never at the wait of a running process with a
\* task that has panicked, and it always leaves the wait unless the process
\* is ended by a panic.
C31_RunTerminates ==
    /\ <>(proc # "running")
    /\ [](proc # "running" => (RanToArchive \/ failed # {}))
    /\ []((proc # "running" /\ failed \cap FatalFailures = {}) => RanToArchive)
    /\ []((proc = "running" /\ mainPc = "wait")
             => \A d \in Tasks : taskPc[d] # "panicked")
    /\ (mainPc = "wait") ~> (mainPc # "wait" \/ proc = "crashed")

C31_Witness ==
    /\ proc = "crashed"
    /\ mainPc = "wait"
    /\ \E d \in Tasks : taskPc[d] = "panicked"
    /\ \E d \in Tasks : taskPc[d] = "done"
    /\ wg > 0

(***************************************************************************)
(* The pipeline that writes one file per resource                          *)
(***************************************************************************)
\* One request of this pipeline: the name of its file and the class queried
\* (the query parameters left out).
FileReq(name, class) == [name |-> name, class |-> class]

\* reqs of this pipeline in full.
reqsFileFull ==
    << FileReq("bds", "fvBD"),
       FileReq("contracts", "vzBrCP"),
       FileReq("epgs", "fvEpP"),
       FileReq("ext-epgs", "l3extInstP"),
       FileReq("filters", "vzRsSubjFiltAtt"),
       FileReq("l3-int-profiles", "l3extLIfP"),
       FileReq("l3-node-profiles", "l3extLNodeP"),
       FileReq("l3outs", "l3extOut"),
       FileReq("subjects", "vzSubj"),
       FileReq("tenants", "fvTenant"),
       FileReq("vrfs", "fvCtx"),
       FileReq("apic-hardware", "eqptBoard"),
       FileReq("devices", "topSystem"),
       FileReq("pods", "fabricSetupP"),
       FileReq("switch-hardware", "fabricNode"),
       FileReq("faults", "faultInfo"),
       FileReq("capacity-rules", "fvcapRule"),
       FileReq("ep-count", "fvEpP"),
       FileReq("ip-count", "fvIp"),
       FileReq("l4l7-container-count", "vnsCDev"),
       FileReq("l4l7-service-graph-count", "vnsGraphInst"),
       FileReq("mo-count-by-node", "ctxClassCnt"),
       FileReq("capacity-vlan", "eqptcapacityVlanUsage5min"),
       FileReq("capacity-tcam", "eqptcapacityPolUsage5min"),
       FileReq("capacity-l2-local", "eqptcapacityL2Usage5min"),
       FileReq("capacity-l2-remote", "eqptcapacityL2RemoteUsage5min"),
       FileReq("capacity-l2-total", "eqptcapacityL2TotalUsage5min"),
       FileReq("capacity-l3-local", "eqptcapacityL3Usage5min"),
       FileReq("capacity-l3-remote", "eqptcapacityL3RemoteUsage5min"),
       FileReq("capacity-l3-total", "eqptcapacityL3TotalUsage5min"),
       FileReq("capacity-l3-local-cap", "eqptcapacityL3UsageCap5min"),
       FileReq("capacity-l3-remote-cap", "eqptcapacityL3RemoteUsageCap5min"),
       FileReq("capacity-l3-total-cap", "eqptcapacityL3TotalUsageCap5min"),
       FileReq("capacity-mcast", "eqptcapacityMcastUsage5min"),
       FileReq("bgp-route-reflectors", "bgpRRNodePEp"),
       FileReq("crypto-key", "pkiExportEncryptionKey"),
       FileReq("ep-loop-control", "epLoopProtectP"),
       FileReq("fabric-wide-settings", "infraSetPol"),
       FileReq("ip-aging", "epIpAgingP"),
       FileReq("mcp-global", "mcpInstPol"),
       FileReq("mcp-interface", "mcpIfPol"),
       FileReq("port-tracking", "infraPortTrackPol"),
       FileReq("rogue-ep-control", "epControlP") >>

\* A representative part of reqs: two requests of one class, and another.
reqsFile ==
    << FileReq("epgs", "fvEpP"),
       FileReq("devices", "topSystem"),
       FileReq("ep-count", "fvEpP") >>

FN == Len(reqsFile)

FileTasks == 1..FN

\* fmt.Sprintf("%s.json", name), the name writeFile returns.
FileName(name) == <<name, ".json">>

\* The file of entry d.
TaskFile(d) == FileName(reqsFile[d].name)

MetaFile == FileName("meta")

NoZip == [exists |-> FALSE, members |-> << >>]

\* The pipelines that write the store are not the ones that run.
CollectorOff ==
    /\ variant = "optional"
    /\ remote = [d \in 1..Len(reqsOptional) |-> Failed]
    /\ run = 1
    /\ proc = "exited"
    /\ mainPc = "end"
    /\ launched = 0
    /\ wg = 0
    /\ taskPc = [d \in 1..Len(reqsOptional) |-> "idle"]
    /\ txOwner = 0
    /\ txIdx = 0
    /\ txWrites = << >>
    /\ store = << >>
    /\ dbExists = FALSE
    /\ dbOpen = FALSE
    /\ logf = EmptyBag
    /\ logExists = FALSE
    /\ archive = NoArchive
    /\ startKeys = {}
    /\ steps = << >>
    /\ calls = [d \in 1..Len(reqsOptional) |-> 0]
    /\ failed = {}
    /\ debugLog = EmptyBag
    /\ catalog = reqsOptional
    /\ taskReq = [d \in 1..Len(reqsOptional) |-> NoReq]

\* What no step of this pipeline changes.
otherVars == << collectorVars, writerVars, argsVars >>

\* The state when main of this pipeline starts, in a directory without
\* temporary files.
InitFile ==
    /\ CollectorOff
    /\ WriterOff
    /\ ArgsOff
    /\ fproc = "running"
    /\ fmainPc = "login"
    /\ ftaskPc = [d \in FileTasks |-> "idle"]
    /\ files = << >>
    /\ disk = {}
    /\ zipped \in {NoZip, [exists |-> TRUE, members |-> <<MetaFile>>]}
    /\ rmIdx = 0

\* client.Login() succeeds.
FileLoginOk ==
    /\ fproc = "running" /\ fmainPc = "login"
    /\ fmainPc' = "launch"
    /\ UNCHANGED << otherVars, fproc, ftaskPc, files, disk, zipped, rmIdx >>

\* client.Login() fails: log.Fatal ends the process.
FileLoginFail ==
    /\ fproc = "running" /\ fmainPc = "login"
    /\ fproc' = "fatal"
    /\ UNCHANGED << otherVars, fmainPc, ftaskPc, files, disk, zipped,
                    rmIdx >>

\* One turn of "for _, req := range reqs { go fetch(client, cfg, req, c) }".
FileLaunch ==
    /\ fproc = "running" /\ fmainPc = "launch"
    /\ \E d \in FileTasks :
          /\ ftaskPc[d] = "idle"
          /\ \A c \in 1..(d - 1) : ftaskPc[c] # "idle"
          /\ ftaskPc' = [ftaskPc EXCEPT ![d] = "call"]
          /\ fmainPc' = IF d = FN THEN "recv" ELSE "launch"
    /\ UNCHANGED << otherVars, fproc, files, disk, zipped, rmIdx >>

\* client.Get returns a document.
FileFetchOk(d) ==
    /\ fproc = "running" /\ ftaskPc[d] = "call"
    /\ ftaskPc' = [ftaskPc EXCEPT ![d] = "write"]
    /\ UNCHANGED << otherVars, fproc, fmainPc, files, disk, zipped, rmIdx >>

\* client.Get returns an error: log.Fatal ends the process.
FileFetchFail(d) ==
    /\ fproc = "running" /\ ftaskPc[d] = "call"
    /\ fproc' = "fatal"
    /\ UNCHANGED << otherVars, fmainPc, ftaskPc, files, disk, zipped,
                    rmIdx >>

\* writeFile(req.name, data) in fetch.
writeFileOk(d) ==
    /\ fproc = "running" /\ ftaskPc[d] = "write"
    /\ disk' = disk \cup {TaskFile(d)}
    /\ ftaskPc' = [ftaskPc EXCEPT ![d] = "send"]
    /\ UNCHANGED << otherVars, fproc, fmainPc, files, zipped, rmIdx >>

\* ioutil.WriteFile fails: log.Panic in the goroutine ends the process.
writeFileFail(d) ==
    /\ fproc = "running" /\ ftaskPc[d] = "write"
    /\ fproc' = "panic"
    /\ UNCHANGED << otherVars, fmainPc, ftaskPc, files, disk, zipped,
                    rmIdx >>

\* Mutant: main's receiving loop runs one turn short.
RecvCountShort == FN - 1

\* The turns of "for range reqs { files = append(files, <-c) }".
RecvCount == FN

\* "c <- ..." in fetch meets "<-c" in main: the channel has no buffer, so
\* the send and the receive are one step, after which fetch returns.
FileSend(d) ==
    /\ fproc = "running" /\ ftaskPc[d] = "send"
    /\ fmainPc = "recv"
    /\ files' = Append(files, TaskFile(d))
    /\ ftaskPc' = [ftaskPc EXCEPT ![d] = "returned"]
    /\ fmainPc' = IF Len(files) + 1 = RecvCount THEN "meta" ELSE "recv"
    /\ UNCHANGED << otherVars, fproc, disk, zipped, rmIdx >>

\* files = append(files, writeFile("meta", metadata))
FileMetaOk ==
    /\ fproc = "running" /\ fmainPc = "meta"
    /\ disk' = disk \cup {MetaFile}
    /\ files' = Append(files, MetaFile)
    /\ fmainPc' = "zip"
    /\ UNCHANGED << otherVars, fproc, ftaskPc, zipped, rmIdx >>

\* writeFile("meta", ...) fails: log.Panic in main, which nothing recovers.
FileMetaFail ==
    /\ fproc = "running" /\ fmainPc = "meta"
    /\ fproc' = "panic"
    /\ UNCHANGED << otherVars, fmainPc, ftaskPc, files, disk, zipped,
                    rmIdx >>

\* zipFiles(files): the old archive is removed and the files are archived.
zipFilesOk ==
    /\ fproc = "running" /\ fmainPc = "zip"
    /\ \A i \in 1..Len(files) : files[i] \in disk
    /\ zipped' = [exists |-> TRUE, members |-> files]
    /\ rmIdx' = 1
    /\ fmainPc' = "rm"
    /\ UNCHANGED << otherVars, fproc, ftaskPc, files, disk >>

\* archiver.Archive fails after the old archive was removed: log.Panic.
zipFilesFail ==
    /\ fproc = "running" /\ fmainPc = "zip"
    /\ zipped' = NoZip
    /\ fproc' = "panic"
    /\ UNCHANGED << otherVars, fmainPc, ftaskPc, files, disk, rmIdx >>

\* One turn of the loop of rmTempFiles: os.Remove(file).
rmTempFilesOk ==
    /\ fproc = "running" /\ fmainPc = "rm"
    /\ rmIdx <= Len(files)
    /\ files[rmIdx] \in disk
    /\ disk' = disk \ {files[rmIdx]}
    /\ rmIdx' = rmIdx + 1
    /\ UNCHANGED << otherVars, fproc, fmainPc, ftaskPc, files, zipped >>

\* os.Remove fails (always so for a file that is not there): log.Panic.
rmTempFilesFail ==
    /\ fproc = "running" /\ fmainPc = "rm"
    /\ rmIdx <= Len(files)
    /\ fproc' = "panic"
    /\ UNCHANGED << otherVars, fmainPc, ftaskPc, files, disk, zipped,
                    rmIdx >>

\* The loop of rmTempFiles is over: "Collection complete." and main returns.
FileComplete ==
    /\ fproc = "running" /\ fmainPc = "rm"
    /\ rmIdx > Len(files)
    /\ fproc' = "complete"
    /\ fmainPc' = "end"
    /\ UNCHANGED << otherVars, ftaskPc, files, disk, zipped, rmIdx >>

\* The steps of main of this pipeline.
FileMainNext ==
    \/ FileLoginOk \/ FileLoginFail \/ FileLaunch \/ FileMetaOk
    \/ FileMetaFail \/ zipFilesOk \/ zipFilesFail \/ rmTempFilesOk
    \/ rmTempFilesFail \/ FileComplete

\* The steps of the goroutine of entry d; its send is a step main shares.
FileFetchNext(d) ==
    \/ FileFetchOk(d) \/ FileFetchFail(d) \/ writeFileOk(d)
    \/ writeFileFail(d) \/ FileSend(d)

NextFile ==
    \/ FileLoginOk
    \/ FileLoginFail
    \/ FileLaunch
    \/ FileMetaOk
    \/ FileMetaFail
    \/ zipFilesOk
    \/ zipFilesFail
    \/ rmTempFilesOk
    \/ rmTempFilesFail
    \/ FileComplete
    \/ \E d \in FileTasks : FileFetchOk(d)
    \/ \E d \in FileTasks : FileFetchFail(d)
    \/ \E d \in FileTasks : writeFileOk(d)
    \/ \E d \in FileTasks : writeFileFail(d)
    \/ \E d \in FileTasks : FileSend(d)

\* One run of this pipeline; every goroutine that can take a step takes one
\* in the end (every call and every operation on the files returns).
SpecFile ==
    /\ InitFile
    /\ [][NextFile]_vars
    /\ WF_vars(FileMainNext)
    /\ \A d \in FileTasks : WF_vars(FileFetchNext(d))

\* How many times the name x is in the list.
Occurrences(list, x) == Cardinality({i \in 1..Len(list) : list[i] = x})

\* The names of the files of this pipeline's catalog are pairwise distinct
\* and none is the name of the metadata file.
FileNamesDistinct ==
    /\ \A i, j \in 1..Len(reqsFileFull) :
          i # j => reqsFileFull[i].name # reqsFileFull[j].name
    /\ \A i \in 1..Len(reqsFileFull) : FileName(reqsFileFull[i].name) # MetaFile
    /\ \A d \in FileTasks : \E i \in 1..Len(reqsFileFull) : reqsFileFull[i] = reqsFile[d]

\* C32: a task's file name is in main's list once it has sent, once, and
\* never before; main is past its receiving loop only with one name of
\* every entry in the list, and only then is the metadata file written, whose
\* name is the last of the list; the archive made by the run holds the
\* whole list, no file is removed before it is archived, and a run that
\* completes leaves none of them on disk; a task ready to send does send
\* unless the process is ended by a failure, and every run ends.
C32_OneFilePerEntry ==
    /\ [](/\ FileNamesDistinct
          /\ \A d \in FileTasks :
                Occurrences(files, TaskFile(d))
                   = IF ftaskPc[d] = "returned" THEN 1 ELSE 0
          /\ fmainPc \in {"login", "launch", "recv"}
                => MetaFile \notin disk /\ Occurrences(files, MetaFile) = 0
          /\ fmainPc \in {"meta", "zip", "rm", "end"}
                => /\ Len(files) >= FN
                   /\ \A d \in FileTasks :
                         \E i \in 1..FN : files[i] = TaskFile(d)
          /\ Len(files) <= FN + 1
          /\ Occurrences(files, MetaFile) > 0
                => Len(files) = FN + 1 /\ files[FN + 1] = MetaFile
          /\ fmainPc \in {"login", "launch", "recv", "meta", "zip"}
                => \A i \in 1..Len(files) : files[i] \in disk
          /\ fmainPc \in {"rm", "end"}
                => /\ zipped = [exists |-> TRUE, members |-> files]
                   /\ Len(zipped.members) = FN + 1
                   /\ \A i \in 1..Len(files) : (files[i] \in disk) <=> (i >= rmIdx)
          /\ fproc = "complete" => disk = {} /\ rmIdx = Len(files) + 1)
    /\ \A d \in FileTasks :
          (ftaskPc[d] = "send") ~> (ftaskPc[d] = "returned" \/ fproc # "running")
    /\ <>(fproc # "running")

\* A run has completed after receiving the names in another order than
\* that of the catalog.
C32_Witness ==
    /\ fproc = "complete"
    /\ Len(files) = FN + 1
    /\ files[1] = TaskFile(FN)
    /\ files[FN + 1] = MetaFile
    /\ zipped.members = files
    /\ disk = {}

(***************************************************************************)
(* MultiLevelWriter                                                        *)
(***************************************************************************)
MaxWrites == 3

\* zerolog.Level: DebugLevel is 0, and so on in this order.
Levels == <<"debug", "info", "warn", "error", "fatal", "panic", "nolevel">>

LevelOf(name) == (CHOOSE i \in 1..Len(Levels) : Levels[i] = name) - 1

InfoLevel == LevelOf("info")

\* The entry handed to the writer by its next call: the entries are
\* numbered in the order of the calls.
NextEntry == Len(wcalls) + 1

\* "if level >= zerolog.InfoLevel"
ToConsole(level) == level >= InfoLevel

\* w.WriteLevel(level, p), where the write to the console and the write to
\* the file succeed or return an error (and then take nothing).
WriteLevel(level, p, consoleErr, fileErr) ==
    /\ Len(wcalls) < MaxWrites
    /\ IF ToConsole(level)
       THEN IF consoleErr
            THEN UNCHANGED << wconsole, wfile >>
            ELSE /\ wconsole' = Append(wconsole, p)
                 /\ wfile' = IF fileErr THEN wfile ELSE Append(wfile, p)
       ELSE /\ wfile' = IF fileErr THEN wfile ELSE Append(wfile, p)
            /\ UNCHANGED wconsole
    /\ wcalls' = Append(wcalls,
                        [op |-> "WriteLevel", level |-> level, p |-> p,
                         consoleErr |-> ToConsole(level) /\ consoleErr,
                         fileErr |-> fileErr,
                         err |-> IF ToConsole(level) /\ consoleErr THEN "console"
                                 ELSE IF fileErr THEN "file" ELSE "nil"])
    /\ UNCHANGED << collectorVars, fileVars, argsVars >>

\* w.Write(p)
Write(p, fileErr) ==
    /\ Len(wcalls) < MaxWrites
    /\ wfile' = IF fileErr THEN wfile ELSE Append(wfile, p)
    /\ wcalls' = Append(wcalls,
                        [op |-> "Write", level |-> 0, p |-> p,
                         consoleErr |-> FALSE, fileErr |-> fileErr,
                         err |-> IF fileErr THEN "file" ELSE "nil"])
    /\ UNCHANGED << wconsole, collectorVars, fileVars, argsVars >>

InitWriter ==
    /\ CollectorOff
    /\ FileOff
    /\ ArgsOff
    /\ wfile = << >>
    /\ wconsole = << >>
    /\ wcalls = << >>

NextWriter ==
    \/ \E level \in 0..(Len(Levels) - 1), ce \in BOOLEAN, fe \in BOOLEAN :
          WriteLevel(level, NextEntry, ce, fe)
    \/ \E fe \in BOOLEAN : Write(NextEntry, fe)

\* Up to MaxWrites calls on one writer.
SpecWriter == InitWriter /\ [][NextWriter]_vars

\* What the calls made so far are to have put into the file: every entry
\* whose write to the file did not fail.
RECURSIVE FileExpected(_)
FileExpected(cs) ==
    IF cs = << >> THEN << >>
    ELSE IF Head(cs).fileErr THEN FileExpected(Tail(cs))
    ELSE <<Head(cs).p>> \o FileExpected(Tail(cs))

\* What they are to have put on the console: the entries of WriteLevel at
\* Info and above, where the console took them.
RECURSIVE ConsoleExpected(_)
ConsoleExpected(cs) ==
    IF cs = << >> THEN << >>
    ELSE IF /\ Head(cs).op = "WriteLevel"
            /\ Head(cs).level >= InfoLevel
            /\ ~Head(cs).consoleErr
    THEN <<Head(cs).p>> \o ConsoleExpected(Tail(cs))
    ELSE ConsoleExpected(Tail(cs))

\* C33: the file holds every entry written, with or without a level and
\* whatever the console did with it, and the console holds the entries of
\* Info level and above written with a level, and no other.
C33_FileGetsEveryEntry ==
    /\ wfile = FileExpected(wcalls)
    /\ wconsole = ConsoleExpected(wcalls)

(***************************************************************************)
(* newArgs                                                                 *)
(***************************************************************************)
resultZip == <<"aci-vetr-data.zip">>

\* The string options of Args, by the names of their fields.
StringOptions == {"APIC", "Username", "Password", "Output"}

\* The command lines followed: each string option is left out or given,
\* with a value that may be empty; --icurl is given or not; and the command
\* line is one go-arg accepts or not (an unknown option, --help).
CommandLines ==
    {c \in [given : SUBSET StringOptions, empty : SUBSET {"APIC", "Output"},
            icurl : BOOLEAN, valid : BOOLEAN] :
        c.empty \subseteq c.given}

\* The value an option is given on the command line c.
ValueOf(c, option) == IF option \in c.empty THEN EmptyStr ELSE <<"v", option>>

\* "args := Args{Output: resultZip}"
ArgsDefault ==
    [APIC |-> EmptyStr, Username |-> EmptyStr, Password |-> EmptyStr,
     Output |-> resultZip, ICurl |-> FALSE]

\* arg.MustParse(&args) on an accepted command line: the options given
\* replace what the fields hold.
MustParse(a, c) ==
    [f \in DOMAIN a |->
        IF f = "ICurl" THEN (a[f] \/ c.icurl)
        ELSE IF f \in c.given THEN ValueOf(c, f) ELSE a[f]]

\* Mutant: the error is returned when either condition holds.
IsErrorEither(a) == a.ICurl \/ a.APIC = EmptyStr

\* "if args.ICurl && args.APIC == """
IsError(a) == a.ICurl /\ a.APIC = EmptyStr

\* newArgs() on an accepted command line.
newArgs(c) ==
    LET a == MustParse(ArgsDefault, c)
    IN  [args |-> a, err |-> IsError(a)]

InitArgs ==
    /\ CollectorOff
    /\ FileOff
    /\ WriterOff
    /\ cmdline \in CommandLines
    /\ argsPc = "parse"
    /\ argsRet = << >>

\* newArgs returns.
ArgsReturn ==
    /\ argsPc = "parse"
    /\ cmdline.valid
    /\ argsRet' = newArgs(cmdline)
    /\ argsPc' = "returned"
    /\ UNCHANGED << cmdline, collectorVars, fileVars, writerVars >>

\* arg.MustParse ends the process: the command line is not accepted, or it
\* asks for the help or the version.
ArgsExit ==
    /\ argsPc = "parse"
    /\ ~cmdline.valid
    /\ argsPc' = "exited"
    /\ UNCHANGED << cmdline, argsRet, collectorVars, fileVars, writerVars >>

NextArgs == ArgsReturn \/ ArgsExit

\* One call of newArgs, on any of the command lines.
SpecArgs == InitArgs /\ [][NextArgs]_vars

\* C34: when newArgs has returned, it has returned an error exactly when
\* --icurl is given and the APIC host is left out or empty; the arguments
\* returned hold what the command line gives, and the standard archive name
\* as Output when the command line gives none.
C34_ErrorIffIcurlWithoutApic ==
    argsPc = "returned" =>
        /\ argsRet.err <=>
              (cmdline.icurl /\ ("APIC" \notin cmdline.given
                                 \/ "APIC" \in cmdline.empty))
        /\ \A f \in StringOptions :
              f \in cmdline.given => argsRet.args[f] = ValueOf(cmdline, f)
        /\ \A f \in StringOptions \ ({"Output"} \cup cmdline.given) :
              argsRet.args[f] = EmptyStr
        /\ "Output" \notin cmdline.given => argsRet.args.Output = resultZip
        /\ argsRet.args.ICurl = cmdline.icurl

C34_Witness ==
    /\ argsPc = "returned"
    /\ argsRet.err
    /\ cmdline.icurl
    /\ "APIC" \notin cmdline.given
    /\ "Output" \notin cmdline.given
    /\ argsRet.args.Output = resultZip

====
